---- MODULE Spec2Model ----
(***************************************************************************)
(* Model of the news pipeline of src/news_analysis/news_analyzer.py        *)
(* (class NewsAnalyzer): per-source fetch with retry, translation with     *)
(* retry, per-article processing, dedup-on-insert storage, the collection  *)
(* cycle collect_and_analyze_news, and the read path                       *)
(* get_news_for_symbol / get_sentiment_summary.                            *)
(*                                                                         *)
(* Texts are sequences of tokens: "w" is a word of the source language,    *)
(* "t" the word the translator returns for it, " " is whitespace.          *)
(* URLs are records [origin, path]; origin = "" is a relative href and     *)
(* the URL with both fields "" is the empty string.                        *)
(* Sentiment scores are fixed-point integers in hundredths (0.05 is 5).    *)
(* Times are integers in days.                                             *)
(***************************************************************************)
EXTENDS Integers, Sequences, FiniteSets, TLC

\* ------------------------------------------------------------------ bounds
\* number of collection cycles the scheduler triggers
MaxCycles == 2
\* number of translator calls whose outcome is chosen (later calls succeed)
MaxCalls == 3
\* number of stored documents in the read-path specification
MaxDocs == 3
\* largest published_date and largest look-back (days) in the read-path
\* specification
MaxDate == 2
\* number of candidates of the store call that reads interleave with
MaxBatch == 2
\* longest text (in tokens) the directly called functions are given
MaxTextLen == 3

\* --------------------------------------------------------- small utilities
Min(a, b) == IF a < b THEN a ELSE b

Range(s) == {s[i] : i \in DOMAIN s}

RECURSIVE SumSeq(_)
SumSeq(s) == IF s = <<>> THEN 0 ELSE Head(s) + SumSeq(Tail(s))

\* ------------------------------------------------------------------- texts
SP == " "
EmptyText == <<>>

\* `not text or text.strip() == ''`
IsBlank(text) == \A i \in DOMAIN text : text[i] = SP

\* what the external translator returns for one token
En(tok) == IF tok = "w" THEN "t" ELSE tok

\* self.translator.translate(text, src, dest).text for a call that succeeds
Translate(text) == [i \in 1..Len(text) |-> En(text[i])]

\* [text[i:i+size] for i in range(0, len(text), size)]
Chunks(text, size) ==
  [k \in 1..((Len(text) + size - 1) \div size) |->
     SubSeq(text, (k - 1) * size + 1, Min(k * size, Len(text)))]

\* ' '.join(parts)
RECURSIVE JoinSp(_)
JoinSp(parts) ==
  IF parts = <<>> THEN <<>>
  ELSE IF Len(parts) = 1 THEN parts[1]
  ELSE parts[1] \o <<SP>> \o JoinSp(Tail(parts))

\* ---------------------------------------------------------- translate_text
translate_max_retries == 3
translate_retry_delay == 2
translate_threshold == 5000
translate_chunk_size_mut == 4999 + 1
translate_chunk_size == 4999

\* outcome of the k-th translator call of one translate_text call
CallFails(fails, k) == IF k \in DOMAIN fails THEN fails[k] ELSE FALSE

\* lines 150-153: translate the chunks from position i on; st counts the
\* translator calls made so far and records their arguments and the sleeps
RECURSIVE TranslateChunks(_, _, _, _, _)
TranslateChunks(chunks, i, fails, st, out) ==
  IF i > Len(chunks) THEN [failed |-> FALSE, out |-> out, st |-> st]
  ELSE LET k == st.calls + 1
           called == [st EXCEPT !.calls = k, !.sent = Append(@, chunks[i])]
       IN
       IF CallFails(fails, k)
       THEN [failed |-> TRUE, out |-> out, st |-> called]
       ELSE TranslateChunks(chunks, i + 1, fails,
              [called EXCEPT !.sleeps = Append(@, 1)],
              Append(out, Translate(chunks[i])))

\* `if attempt < max_retries - 1` of the except clause, lines 159-165
TranslateRetryMut(attempt) == attempt < translate_max_retries
TranslateRetry(attempt) == attempt < translate_max_retries - 1

\* value returned by the last except clause, line 165
TranslateFallbackMut(text) == EmptyText
TranslateFallback(text) == text

\* what a translate_text call hands back, with what it did on the way
TranslateResult(kind, value, st) ==
  [kind |-> kind, value |-> value, calls |-> st.calls, sleeps |-> st.sleeps,
   sent |-> st.sent]

\* the for loop of lines 136-165; attempt counts from 0 as range() does
RECURSIVE TranslateLoop(_, _, _, _, _, _)
TranslateLoop(threshold, size, text, fails, attempt, st) ==
  IF attempt >= translate_max_retries
  THEN TranslateResult("none", EmptyText, st)
  ELSE
    LET Except(st2) ==
          IF TranslateRetry(attempt)
          THEN TranslateLoop(threshold, size, text, fails, attempt + 1,
                 [st2 EXCEPT !.sleeps = Append(@, st2.retry_delay),
                             !.retry_delay = @ * 2])
          ELSE TranslateResult("return", TranslateFallback(text), st2)
    IN
    IF IsBlank(text)
    THEN TranslateResult("return", EmptyText, st)
    ELSE IF Len(text) < threshold
    THEN LET called == [st EXCEPT !.calls = @ + 1, !.sent = Append(@, text)] IN
         IF CallFails(fails, called.calls)
         THEN Except(called)
         ELSE TranslateResult("return", Translate(text), called)
    ELSE LET r == TranslateChunks(Chunks(text, size), 1, fails, st, <<>>) IN
         IF r.failed
         THEN Except(r.st)
         ELSE TranslateResult("return", JoinSp(r.out), r.st)

translate_text_with(threshold, size, text, fails) ==
  TranslateLoop(threshold, size, text, fails, 0,
    [retry_delay |-> translate_retry_delay, calls |-> 0, sleeps |-> <<>>,
     sent |-> <<>>])

translate_text(text, fails) ==
  translate_text_with(translate_threshold, translate_chunk_size, text, fails)

\* ------------------------------------------------------- analyze_sentiment
\* stand-in for the VADER / TextBlob scores of a non-blank text: the scores
\* depend on the text only
LexiconScores(text) ==
  LET n == Cardinality({i \in DOMAIN text : text[i] # SP}) IN
  [compound |-> Min(100, 20 * n), positive |-> Min(100, 10 * n), negative |-> 0,
   neutral |-> 100 - Min(100, 10 * n), polarity |-> 10, subjectivity |-> 50]

\* what the two scoring libraries of one analyze_sentiment call do
ScorerOutcomes == {"ok", "Exception"}

\* the scoring libraries compute from local data without I/O: in a
\* collection cycle they answer (the direct calls below also make them fail)
CycleScorerOutcomes == {"ok"}

\* the dict of the except clause, lines 206-216
SentimentExcept(e) ==
  [compound |-> 0, positive |-> 0, negative |-> 0, neutral |-> 100,
   polarity |-> 0, subjectivity |-> 0, error |-> e]

\* lines 177-216; so is what the scoring libraries do when they are called
analyze_sentiment(text, so) ==
  IF IsBlank(text)
  THEN [compound |-> 0, positive |-> 0, negative |-> 0, neutral |-> 100]
  ELSE IF so = "ok" THEN LexiconScores(text)
  ELSE SentimentExcept(so)

\* ------------------------------------------------ _extract_stock_symbols
\* the tickers of the model in ascending order
KnownSymbols == <<"1120.SR", "2222.SR">>

\* re.findall(r'(\d{4})\.SR', ...) inside one token, with the suffix added
\* back (lines 570-574); the pattern is case sensitive
PatternMatches(tok) ==
  CASE tok = "2222.SR" -> <<"2222.SR">>
    [] tok = "1120.SR" -> <<"1120.SR">>
    [] OTHER           -> <<>>

\* str.lower() of one token
LowerToken(tok) ==
  CASE tok \in {"Aramco", "ARAMCO"} -> "aramco"
    [] tok = "Rajhi"   -> "rajhi"
    [] tok = "2222.SR" -> "2222.sr"
    [] tok = "1120.SR" -> "1120.sr"
    [] OTHER           -> tok

\* text.lower(), line 594
Lower(text) == [i \in 1..Len(text) |-> LowerToken(text[i])]

\* stock_name_mapping, lines 577-591: the entries of the model's two tickers,
\* in dict order
stock_name_mapping ==
  << [name |-> <<"aramco">>, symbol |-> "2222.SR"],
     [name |-> <<"saudi", SP, "aramco">>, symbol |-> "2222.SR"],
     [name |-> <<"al", SP, "rajhi">>, symbol |-> "1120.SR"],
     [name |-> <<"rajhi", SP, "bank">>, symbol |-> "1120.SR"] >>

\* `name in text_lower`, line 596
Contains(text, name) ==
  \E i \in 0..(Len(text) - Len(name)) :
    \A j \in 1..Len(name) : text[i + j] = name[j]

\* the matches of the pattern over the whole text, in text order
RECURSIVE FindAll(_)
FindAll(text) ==
  IF text = <<>> THEN <<>> ELSE PatternMatches(Head(text)) \o FindAll(Tail(text))

\* the loop of lines 595-597 from entry k on
RECURSIVE NameMatches(_, _)
NameMatches(text_lower, k) ==
  IF k > Len(stock_name_mapping) THEN <<>>
  ELSE (IF Contains(text_lower, stock_name_mapping[k].name)
        THEN <<stock_name_mapping[k].symbol>> ELSE <<>>)
       \o NameMatches(text_lower, k + 1)

\* list(set(symbols)), line 600
UniqueMut(symbols) == symbols
Unique(symbols) ==
  LET S == Range(symbols) IN
  CHOOSE q \in [1..Cardinality(S) -> S] : Range(q) = S

\* sorted(...), line 600: every element stays, in ascending order
RECURSIVE SortedFrom(_, _)
SortedFrom(symbols, k) ==
  IF k > Len(KnownSymbols) THEN <<>>
  ELSE SelectSeq(symbols, LAMBDA x : x = KnownSymbols[k]) \o SortedFrom(symbols, k + 1)

\* lines 566-603
extract_stock_symbols(text) ==
  SortedFrom(Unique(FindAll(text) \o NameMatches(Lower(text), 1)), 1)

\* ------------------------------------------------------------ news sources
\* self.news_sources, lines 70-101; the model configures two of the five
\* sources in their list order (one English, one Arabic)
news_sources ==
  << [name |-> "Argaam", language |-> "en", base |-> "https://www.argaam.com"],
     [name |-> "CNBC Arabia", language |-> "ar", base |-> "https://www.cnbcarabia.com"] >>

SourceNames == {news_sources[i].name : i \in DOMAIN news_sources}

\* ------------------------------------------------------------------- URLs
EmptyUrl == [origin |-> "", path |-> ""]

\* `if url and not url.startswith('http'): url = f"{base}{url}"`, lines 257-259
AbsoluteUrl(source, href) ==
  IF href # EmptyUrl /\ href.origin = ""
  THEN [origin |-> source.base, path |-> href.path]
  ELSE href

\* `except Exception as e` of _fetch_article_content, lines 464-466
ContentExceptMut(e) == [kind |-> "raise", value |-> <<e>>]
ContentExcept(e) == [kind |-> "return", value |-> EmptyText]

\* _fetch_article_content, lines 422-466: one GET, no retry; any failure
\* gives the empty string. gets counts the requests.get calls made.
fetch_article_content(url, page) ==
  IF url = EmptyUrl THEN [kind |-> "return", value |-> EmptyText, gets |-> 0]
  ELSE LET r == IF page.status = "ok"
                THEN [kind |-> "return", value |-> page.body]
                ELSE ContentExcept(page.status)
       IN [kind |-> r.kind, value |-> r.value, gets |-> 1]

\* ------------------------------------------------------------ _parse_date
\* A date string is a record: kind "blank" (empty or whitespace), "numeric"
\* (three digit groups a, b, c with their digit counts, the two separators,
\* and whether other text surrounds them), "named" (day, month name, year
\* written in one of the four month-name styles) or "garbage".
BlankDate == [kind |-> "blank"]

Num(v, len) == [v |-> v, len |-> len]

IsLeap(y) == y % 4 = 0 /\ (y % 100 # 0 \/ y % 400 = 0)

DaysInMonth(y, m) ==
  IF m = 2 THEN (IF IsLeap(y) THEN 29 ELSE 28)
  ELSE IF m \in {4, 6, 9, 11} THEN 30 ELSE 31

\* datetime.datetime(y, m, d) does not raise ValueError
ValidDate(y, m, d) ==
  /\ y \in 1..9999
  /\ m \in 1..12
  /\ d \in 1..DaysInMonth(y, m)

\* the timestamp datetime.datetime(y, m, d), as a number that grows with it
DateValue(y, m, d) == (y * 12 + (m - 1)) * 31 + d

\* date_formats, lines 483-492
date_formats ==
  << "%Y-%m-%d", "%d-%m-%Y", "%b %d, %Y", "%d %b %Y",
     "%B %d, %Y", "%d %B %Y", "%Y/%m/%d", "%d/%m/%Y" >>

\* the year, month and day strptime(date_str.strip(), fmt) reads, when the
\* whole string has the layout of the format
Fields(ds, fmt) ==
  IF ds.kind = "numeric" /\ ~ds.junk /\ ds.sep1 = ds.sep2
  THEN CASE fmt \in {"%Y-%m-%d", "%Y/%m/%d"} ->
              IF ds.sep1 = (IF fmt = "%Y-%m-%d" THEN "-" ELSE "/")
                 /\ ds.a.len = 4 /\ ds.b.len <= 2 /\ ds.c.len <= 2
              THEN {<<ds.a.v, ds.b.v, ds.c.v>>} ELSE {}
         [] fmt \in {"%d-%m-%Y", "%d/%m/%Y"} ->
              IF ds.sep1 = (IF fmt = "%d-%m-%Y" THEN "-" ELSE "/")
                 /\ ds.a.len <= 2 /\ ds.b.len <= 2 /\ ds.c.len = 4
              THEN {<<ds.c.v, ds.b.v, ds.a.v>>} ELSE {}
         [] OTHER -> {}
  ELSE IF ds.kind = "named" /\ ds.style = fmt
  THEN {<<ds.y, ds.m, ds.d>>}
  ELSE {}

\* strptime returns (it raises ValueError for a layout that does not match
\* and for a date that does not exist)
StrptimeOk(ds, fmt) == \E f \in Fields(ds, fmt) : ValidDate(f[1], f[2], f[3])

\* re.search(r'(\d{1,2})[/-](\d{1,2})[/-](\d{2,4})', date_str), lines 501-502:
\* the digits next to the separators match, wherever they stand
RegexMatch(ds) ==
  /\ ds.kind = "numeric"
  /\ ds.sep1 \in {"/", "-"} /\ ds.sep2 \in {"/", "-"}
  /\ ds.b.len <= 2
  /\ ds.c.len >= 2

\* day, month, year = match.groups(), with the "20" of lines 505-506
RegexDay(ds) == IF ds.a.len <= 2 THEN ds.a.v ELSE ds.a.v % 100
RegexMonth(ds) == ds.b.v
RegexYear(ds) == IF ds.c.len = 2 THEN 2000 + ds.c.v ELSE ds.c.v

\* the except clause of lines 513-515
ParseDateExceptMut(e, now_) == [kind |-> "raise", value |-> now_, via |-> e]
ParseDateExcept(e, now_) == [kind |-> "return", value |-> now_, via |-> "except"]

\* lines 478-515; via names the return statement that answered
parse_date(date_str, now_) ==
  IF date_str.kind = "blank"
  THEN [kind |-> "return", value |-> now_, via |-> "empty"]
  ELSE IF \E k \in DOMAIN date_formats : StrptimeOk(date_str, date_formats[k])
  THEN LET k == CHOOSE k \in DOMAIN date_formats :
                  /\ StrptimeOk(date_str, date_formats[k])
                  /\ \A j \in 1..(k - 1) : ~StrptimeOk(date_str, date_formats[j])
           f == CHOOSE f \in Fields(date_str, date_formats[k]) : TRUE
       IN [kind |-> "return", value |-> DateValue(f[1], f[2], f[3]), via |-> "format"]
  ELSE IF RegexMatch(date_str)
  THEN IF ValidDate(RegexYear(date_str), RegexMonth(date_str), RegexDay(date_str))
       THEN [kind |-> "return",
             value |-> DateValue(RegexYear(date_str), RegexMonth(date_str),
                                 RegexDay(date_str)),
             via |-> "regex"]
       ELSE ParseDateExcept("ValueError", now_)
  ELSE [kind |-> "return", value |-> now_, via |-> "fallback"]

\* elements of a listing page: has_title is whether the title selector
\* matches, page is what the article URL answers
E1 == [has_title |-> TRUE, title |-> <<"w">>,
       href |-> [origin |-> "", path |-> "/n1"],
       page |-> [status |-> "ok", body |-> <<"w", SP, "aramco">>]]
E2 == [has_title |-> TRUE, title |-> <<"w", SP, "w">>,
       href |-> [origin |-> "https://www.argaam.com", path |-> "/n1"],
       page |-> [status |-> "fail", body |-> <<>>]]
E3 == [has_title |-> FALSE, title |-> <<>>,
       href |-> EmptyUrl,
       page |-> [status |-> "fail", body |-> <<>>]]

Listings == { <<>>, <<E1>>, <<E2>>, <<E3, E1, E2>> }

\* a title anchor without an href: title_elem.get('href', '') gives ''
E4 == [has_title |-> TRUE, title |-> <<"aramco">>,
       href |-> EmptyUrl,
       page |-> [status |-> "fail", body |-> <<>>]]

\* a page whose GET answers but whose parse raises
E5 == [has_title |-> TRUE, title |-> <<"w">>,
       href |-> [origin |-> "", path |-> "/n2"],
       page |-> [status |-> "Exception", body |-> <<>>]]

DirectListings == Listings \cup { <<E4>>, <<E5, E1>>, <<E2, E4, E1, E5>> }

\* one iteration of the per-element loop of lines 250-276 (the same in every
\* source branch): whether the element gave an article, and the content GETs
\* made for it. An exception inside the iteration is caught at lines 275-276
\* and the element gives no article.
ExtractElement(source, e, now_) ==
  IF ~e.has_title THEN [kept |-> FALSE, gets |-> 0]
  ELSE LET url == AbsoluteUrl(source, e.href)
           content == fetch_article_content(url, e.page)
           date == parse_date(BlankDate, now_)
       IN IF content.kind # "return" \/ date.kind # "return"
          THEN [kept |-> FALSE, gets |-> content.gets]
          ELSE [kept |-> TRUE, gets |-> content.gets,
                article |-> [title |-> e.title,
                             url |-> url,
                             published_date |-> date.value,
                             source |-> source.name,
                             language |-> source.language,
                             content |-> content.value]]

ExtractElements(source, listing, now_) ==
  [i \in DOMAIN listing |-> ExtractElement(source, listing[i], now_)]

\* the articles list after the loop of lines 250-276
ExtractArticles(source, listing, now_) ==
  LET kept == SelectSeq(ExtractElements(source, listing, now_), LAMBDA x : x.kept)
  IN [i \in DOMAIN kept |-> kept[i].article]

\* ------------------------------------------------- fetch_news_from_source
fetch_max_retries_mut == 3 + 1
fetch_max_retries == 3
fetch_retry_delay == 2

FetchOutcomes == {"ok", "RequestException", "Exception"}

\* the for loop of lines 234-409; outs[attempt + 1] is what the listing GET
\* and the parse of that attempt do
RECURSIVE FetchLoop(_, _, _, _, _, _)
FetchLoop(source, outs, listing, now_, attempt, st) ==
  IF attempt >= fetch_max_retries
  THEN [kind |-> "none", value |-> <<>>, gets |-> st.gets, sleeps |-> st.sleeps,
        elements |-> <<>>]
  ELSE
    LET out == IF attempt + 1 \in DOMAIN outs THEN outs[attempt + 1] ELSE "RequestException"
        gets == st.gets + 1
    IN
    CASE out = "ok" ->
           [kind |-> "return", value |-> ExtractArticles(source, listing, now_),
            gets |-> gets, sleeps |-> st.sleeps,
            elements |-> ExtractElements(source, listing, now_)]
      [] out = "RequestException" ->
           IF attempt < fetch_max_retries - 1
           THEN FetchLoop(source, outs, listing, now_, attempt + 1,
                  [gets |-> gets, sleeps |-> Append(st.sleeps, st.retry_delay),
                   retry_delay |-> st.retry_delay * 2])
           ELSE [kind |-> "return", value |-> <<>>, gets |-> gets,
                 sleeps |-> st.sleeps, elements |-> <<>>]
      [] OTHER ->
           [kind |-> "raise", value |-> <<>>, gets |-> gets, sleeps |-> st.sleeps,
            elements |-> <<>>]

fetch_news_from_source(source, outs, listing, now_) ==
  FetchLoop(source, outs, listing, now_, 0,
    [gets |-> 0, sleeps |-> <<>>, retry_delay |-> fetch_retry_delay])

\* --------------------------------------------------- process_news_article
\* Python's None where the code expects a text
NoneText == <<"None">>

\* what a translate_text call hands back to its caller (None when the for
\* loop of line 136 ends without a return)
Returned(tr) == IF tr.kind = "return" THEN tr.value ELSE NoneText

\* the except clause of lines 551-554: the article as far as it got
ProcessExcept(article, e) == [f \in DOMAIN article \cup {"error"} |->
                                IF f = "error" THEN e ELSE article[f]]

\* lines 527-549; ft and fc are the translator outcomes of the two
\* translate_text calls, so is what the scoring libraries do
process_news_article(article, ft, fc, so, now_) ==
  LET ar == article.language = "ar"
      title_en == IF ar THEN Returned(translate_text(article.title, ft))
                  ELSE article.title
      content_en == IF ar THEN Returned(translate_text(article.content, fc))
                    ELSE article.content
      translated == [title |-> article.title, url |-> article.url,
                     published_date |-> article.published_date,
                     source |-> article.source, language |-> article.language,
                     content |-> article.content,
                     title_en |-> title_en, content_en |-> content_en]
      text_for_analysis == IF ar THEN title_en \o <<SP>> \o content_en
                           ELSE article.title \o <<SP>> \o article.content
  IN IF ar /\ NoneText \in {title_en, content_en}
     THEN ProcessExcept(translated, "TypeError")
     ELSE [title |-> article.title, url |-> article.url,
           published_date |-> article.published_date, source |-> article.source,
           language |-> article.language, content |-> article.content,
           title_en |-> title_en, content_en |-> content_en,
           sentiment |-> analyze_sentiment(text_for_analysis, so),
           symbols |-> extract_stock_symbols(text_for_analysis),
           processed_at |-> now_]

\* ------------------------------------------------------------------ state
VARIABLES
  store,              \* self.news_collection: the documents in insertion order
  now,                \* datetime.datetime.now()
  cycles,             \* collection cycles started so far
  pc,                 \* position in collect_and_analyze_news
  outcome,            \* how the last collect_and_analyze_news call ended
  results,            \* the summary dict of lines 658-664
  src,                \* index of the source the for loop of line 670 is at
  all_articles,       \* line 667
  processed_articles, \* line 683
  idx,                \* index of the article the for loop of line 684 is at
  stPc,               \* position in store_news_in_db
  si,                 \* index of the article the for loop of line 625 is at
  stored_count,       \* line 624
  storeCall,          \* the current/last store_news_in_db call, for the claims
  log,                \* the last message store_news_in_db logged
  fetchCall,          \* the last fetch_news_from_source call, for the claims
  procCall,           \* the last process_news_article call, for the claims
  cycleLog,           \* what happened in the current cycle, for the claims
  readCall,           \* the last read-path call and what it returned
  fnCall,             \* the last direct call of one function and its result
  writer2,            \* a second store_news_in_db call running at the same time
  api,                \* NewsAPIClient: its cache files, the clock, the last call
  sched               \* NewsScheduler: its fields, its threads, the schedule's jobs

vars == <<store, now, cycles, pc, outcome, results, src, all_articles,
          processed_articles, idx, stPc, si, stored_count, storeCall, log,
          fetchCall, procCall, cycleLog, readCall, fnCall, writer2, api, sched>>

cycleVars == <<cycles, pc, outcome, results, src, all_articles,
               processed_articles, idx, stPc, si, stored_count, storeCall, log,
               fetchCall, procCall, cycleLog>>

NoCall == [op |-> "none"]

\* results of lines 658-664
EmptyResults ==
  [total_articles |-> 0, processed_articles |-> 0, stored_articles |-> 0,
   sources |-> [n \in {} |-> 0], errors |-> <<>>]

EmptyCycleLog == [exhausted |-> {}, fetched |-> <<>>, storageFault |-> FALSE]

InitCycle ==
  /\ cycles = 0
  /\ pc = "idle"
  /\ outcome = "none"
  /\ results = EmptyResults
  /\ src = 1
  /\ all_articles = <<>>
  /\ processed_articles = <<>>
  /\ idx = 1
  /\ stPc = "idle"
  /\ si = 1
  /\ stored_count = 0
  /\ storeCall = NoCall
  /\ log = "none"
  /\ fetchCall = NoCall
  /\ procCall = NoCall
  /\ cycleLog = EmptyCycleLog

Init ==
  /\ store = <<>>
  /\ now = 0
  /\ readCall = NoCall
  /\ fnCall = NoCall
  /\ writer2 = NoCall
  /\ api = NoCall
  /\ sched = NoCall
  /\ InitCycle

\* ------------------------------------------------ collect_and_analyze_news
\* `except Exception as e` (lines 677, 689, 701) catches every exception the
\* pipeline raises
ExceptExceptionMut(e) == e = "RequestException"
ExceptException(e) == TRUE

\* lines 701-705, or the exception leaving the call when the clause does not
\* match
OuterHandler(res, e) ==
  IF ExceptException(e)
  THEN [outcome |-> "returned",
        results |-> [res EXCEPT !.errors = Append(@, [in |-> "collect", what |-> e])]]
  ELSE [outcome |-> "raised", results |-> res]

\* lines 658-667: a scheduler tick starts a cycle
BeginCycle ==
  /\ pc \in {"idle", "done"}
  /\ cycles < MaxCycles
  /\ cycles' = cycles + 1
  /\ pc' = "fetch"
  /\ outcome' = "running"
  /\ results' = EmptyResults
  /\ src' = 1
  /\ all_articles' = <<>>
  /\ processed_articles' = <<>>
  /\ idx' = 1
  /\ stPc' = "idle"
  /\ si' = 1
  /\ stored_count' = 0
  /\ storeCall' = NoCall
  /\ log' = "none"
  /\ fetchCall' = NoCall
  /\ procCall' = NoCall
  /\ cycleLog' = EmptyCycleLog
  /\ UNCHANGED <<store, now, readCall, fnCall, writer2, api, sched>>

\* the outcomes of the attempts of one fetch: entries after the attempt that
\* ends the call are never used
FetchPatterns ==
  {o \in [1..fetch_max_retries -> FetchOutcomes] :
     \A i \in 1..(fetch_max_retries - 1) : o[i] # "RequestException" => o[i + 1] = "ok"}

AllRequestsFail(outs) == \A i \in DOMAIN outs : outs[i] = "RequestException"

\* one iteration of the for loop of lines 670-680
\* lines 674-675: the count of one source enters the summary
RecordSourceMut(res, name, n) ==
  [res EXCEPT
     !.sources = [k \in DOMAIN @ \cup {name} |-> IF k = name THEN n ELSE @[k]],
     !.total_articles = n]
RecordSource(res, name, n) ==
  [res EXCEPT
     !.sources = [k \in DOMAIN @ \cup {name} |-> IF k = name THEN n ELSE @[k]],
     !.total_articles = @ + n]

CollectSource ==
  /\ pc = "fetch"
  /\ src <= Len(news_sources)
  /\ \E outs \in FetchPatterns :
     \E listing \in IF \E i \in DOMAIN outs : outs[i] = "Exception"
                    THEN {<<>>} ELSE Listings :
       LET source == news_sources[src]
           r == fetch_news_from_source(source, outs, listing, now)
           \* len(None) raises a TypeError inside the try of line 671
           exc == IF r.kind = "none" THEN "TypeError" ELSE "Exception"
           inner == IF r.kind = "return"
                    THEN [caught |-> TRUE,
                          results |-> RecordSource(results, source.name, Len(r.value))]
                    ELSE IF ExceptException(exc)
                    THEN [caught |-> TRUE,
                          results |-> [results EXCEPT !.errors =
                             Append(@, [in |-> "source", what |-> source.name])]]
                    ELSE [caught |-> FALSE, results |-> results]
           out == IF inner.caught
                  THEN [outcome |-> "running", results |-> inner.results]
                  ELSE OuterHandler(results, exc)
       IN /\ fetchCall' = [op |-> "fetch", source |-> src, outs |-> outs,
                           kind |-> r.kind, value |-> r.value,
                           gets |-> r.gets, sleeps |-> r.sleeps]
          /\ cycleLog' = [cycleLog EXCEPT
               !.fetched = Append(@, src),
               !.exhausted = IF AllRequestsFail(outs) THEN @ \cup {src} ELSE @]
          /\ results' = out.results
          /\ outcome' = out.outcome
          /\ all_articles' = IF r.kind = "return" THEN all_articles \o r.value
                             ELSE all_articles
          /\ src' = src + 1
          /\ pc' = IF out.outcome # "running" THEN "done"
                   ELSE IF src = Len(news_sources) THEN "process" ELSE "fetch"
  /\ UNCHANGED <<store, now, cycles, processed_articles, idx, stPc, si,
                 stored_count, storeCall, log, procCall, readCall, fnCall, writer2, api, sched>>

\* the outcomes of the translator calls of one translate_text call: the first
\* n calls fail. A text under the threshold is translated by one call per
\* attempt and the call returns at the first success, so the outcomes after
\* the first success are never used.
FailPatterns == {[k \in 1..MaxCalls |-> k <= n] : n \in 0..MaxCalls}
NoFails == [k \in 1..MaxCalls |-> FALSE]
AllFail(fails) == \A k \in DOMAIN fails : fails[k]

\* one iteration of the for loop of lines 684-692
ProcessArticle ==
  /\ pc = "process"
  /\ idx <= Len(all_articles)
  /\ LET article == all_articles[idx] IN
     \E ft \in IF article.language = "ar" THEN FailPatterns ELSE {NoFails},
        fc \in IF article.language = "ar" THEN FailPatterns ELSE {NoFails},
        so \in CycleScorerOutcomes :
       LET processed == process_news_article(article, ft, fc, so, now) IN
       /\ processed_articles' = Append(processed_articles, processed)
       /\ results' = [results EXCEPT !.processed_articles = @ + 1]
       /\ procCall' = [op |-> "process", article |-> article, out |-> processed,
                       title_failed |-> AllFail(ft), content_failed |-> AllFail(fc),
                       title_tr |-> translate_text(article.title, ft),
                       content_tr |-> translate_text(article.content, fc)]
  /\ idx' = idx + 1
  /\ fetchCall' = NoCall
  /\ UNCHANGED <<store, now, cycles, pc, outcome, src, all_articles, stPc, si,
                 stored_count, storeCall, log, cycleLog, readCall, fnCall, writer2, api, sched>>

\* -------------------------------------------------------- store_news_in_db
StorageOutcomes == {"ok", "PyMongoError"}

StoredUrls(st) == {st[i].url : i \in DOMAIN st}

\* self.news_collection.find_one({'url': url}) is truthy, lines 627-628
UrlExistsMut(st, url) == FALSE
UrlExists(st, url) == url \in StoredUrls(st)

\* lines 628-630: the store after a candidate whose URL is already stored
\* was skipped
SkipExistingMut(st, article) ==
  [i \in DOMAIN st |-> IF st[i].url = article.url THEN article ELSE st[i]]
SkipExisting(st, article) == st

\* the except clauses of lines 643-649, which enclose the whole for loop:
\* the call ends and returns 0
StoreExcept(e, count) == [kind |-> "return", value |-> 0]

\* lines 695-699 (the store call returned) or 701-705 (it raised)
FinishStore(res, r) ==
  IF r.kind = "return"
  THEN [outcome |-> "returned", results |-> [res EXCEPT !.stored_articles = r.value]]
  ELSE OuterHandler(res, r.value)

\* line 695 and lines 619-624: the call of store_news_in_db
StoreBegin ==
  /\ pc = "process"
  /\ idx > Len(all_articles)
  /\ IF processed_articles = <<>>
     THEN LET f == FinishStore(results, [kind |-> "return", value |-> 0]) IN
          /\ storeCall' = [op |-> "store", batch |-> processed_articles,
                           store0 |-> store, visited |-> {}, inserted |-> {},
                           done |-> TRUE, ret |-> 0]
          /\ pc' = "done"
          /\ stPc' = "idle"
          /\ results' = f.results
          /\ outcome' = f.outcome
     ELSE /\ storeCall' = [op |-> "store", batch |-> processed_articles,
                           store0 |-> store, visited |-> {}, inserted |-> {},
                           done |-> FALSE, ret |-> 0]
          /\ pc' = "store"
          /\ stPc' = "find"
          /\ UNCHANGED <<results, outcome>>
  /\ si' = 1
  /\ stored_count' = 0
  /\ procCall' = NoCall
  /\ UNCHANGED <<store, now, cycles, src, all_articles, processed_articles, idx,
                 log, fetchCall, cycleLog, readCall, fnCall, writer2, api, sched>>

\* an exception raised in the for loop of lines 625-638 reaches the except
\* clauses of the call
StoreRaise(e) ==
  LET h == StoreExcept(e, stored_count) IN
  /\ cycleLog' = [cycleLog EXCEPT !.storageFault = TRUE]
  /\ log' = "error"
  /\ UNCHANGED <<store, stored_count>>
  /\ IF h.kind = "continue"
     THEN /\ si' = si + 1
          /\ stPc' = "find"
          /\ UNCHANGED <<pc, results, outcome>>
          /\ storeCall' = [storeCall EXCEPT !.visited = @ \cup {si}]
     ELSE LET f == FinishStore(results, h) IN
          /\ UNCHANGED si
          /\ stPc' = "idle"
          /\ pc' = "done"
          /\ results' = f.results
          /\ outcome' = f.outcome
          /\ storeCall' = [storeCall EXCEPT !.visited = @ \cup {si},
                             !.done = TRUE, !.ret = h.value]

\* lines 627-630: the lookup of the article's URL
StoreFind ==
  /\ pc = "store"
  /\ stPc = "find"
  /\ si <= Len(processed_articles)
  /\ \E o \in StorageOutcomes :
       IF o = "ok"
       THEN /\ storeCall' = [storeCall EXCEPT !.visited = @ \cup {si}]
            /\ IF UrlExists(store, processed_articles[si].url)
               THEN /\ log' = "already exists"
                    /\ si' = si + 1
                    /\ stPc' = "find"
               ELSE /\ log' = "none"
                    /\ si' = si
                    /\ stPc' = "insert"
            /\ store' = IF UrlExists(store, processed_articles[si].url)
                        THEN SkipExisting(store, processed_articles[si])
                        ELSE store
            /\ UNCHANGED <<stored_count, pc, results, outcome, cycleLog>>
       ELSE StoreRaise(o)
  /\ UNCHANGED <<now, cycles, src, all_articles, processed_articles, idx,
                 fetchCall, procCall, readCall, fnCall, writer2, api, sched>>

\* lines 633-638: the insert of an article whose URL was not found
StoreInsert ==
  /\ pc = "store"
  /\ stPc = "insert"
  /\ \E o \in StorageOutcomes :
       IF o = "ok"
       THEN /\ store' = Append(store, processed_articles[si])
            /\ stored_count' = stored_count + 1
            /\ log' = "stored"
            /\ si' = si + 1
            /\ stPc' = "find"
            /\ storeCall' = [storeCall EXCEPT !.inserted = @ \cup {si}]
            /\ UNCHANGED <<pc, results, outcome, cycleLog>>
       ELSE StoreRaise(o)
  /\ UNCHANGED <<now, cycles, src, all_articles, processed_articles, idx,
                 fetchCall, procCall, readCall, fnCall, writer2, api, sched>>

\* lines 640-641 and 695-699: the loop is over, the count is returned
StoreReturn ==
  /\ pc = "store"
  /\ stPc = "find"
  /\ si > Len(processed_articles)
  /\ LET f == FinishStore(results, [kind |-> "return", value |-> stored_count]) IN
     /\ results' = f.results
     /\ outcome' = f.outcome
  /\ storeCall' = [storeCall EXCEPT !.done = TRUE, !.ret = stored_count]
  /\ log' = "summary"
  /\ pc' = "done"
  /\ stPc' = "idle"
  /\ UNCHANGED <<store, now, cycles, src, all_articles, processed_articles, idx,
                 si, stored_count, fetchCall, procCall, cycleLog, readCall, fnCall, writer2, api, sched>>

Next ==
  \/ BeginCycle
  \/ CollectSource
  \/ ProcessArticle
  \/ StoreBegin
  \/ StoreFind
  \/ StoreInsert
  \/ StoreReturn

Spec == Init /\ [][Next]_vars

\* -------------------------------------------------------------- read path
\* the `symbols` and `published_date` conditions of the query, lines 725-728
MatchesQueryMut(doc, symbol, start_date, end_date) ==
  /\ "symbols" \in DOMAIN doc
  /\ symbol \in Range(doc.symbols)
  /\ doc.published_date >= start_date
MatchesQuery(doc, symbol, start_date, end_date) ==
  /\ "symbols" \in DOMAIN doc
  /\ symbol \in Range(doc.symbols)
  /\ doc.published_date >= start_date
  /\ doc.published_date <= end_date

\* sort('published_date', DESCENDING): the order the cursor may deliver two
\* documents in; documents with equal dates come in either order
SortedDescending(s) ==
  \A i, j \in DOMAIN s : i < j => s[i].published_date >= s[j].published_date

IndexPermutations(n) ==
  {f \in [1..n -> 1..n] : \A i, j \in 1..n : f[i] = f[j] => i = j}

\* limit(n) for n >= 1: the callers pass 20 (the default) and 100
CursorLimit(s, n) == SubSeq(s, 1, Min(n, Len(s)))

\* lines 719-737: every list the query may deliver
get_news_for_symbol(st, symbol, days, limit, now_) ==
  LET end_date == now_
      start_date == end_date - days
      found == SelectSeq(st, LAMBDA doc : MatchesQuery(doc, symbol, start_date, end_date))
      sorted == {s \in {[i \in 1..Len(found) |-> found[f[i]]] : f \in IndexPermutations(Len(found))} :
                   SortedDescending(s)}
  IN {CursorLimit(s, limit) : s \in sorted}

\* sum(scores) / len(scores) as an exact fraction of hundredths
Mean(scores) == [num |-> SumSeq(scores), den |-> Len(scores)]
ZeroMean == [num |-> 0, den |-> 1]

\* lines 796-801: 0.05 is 5 hundredths; avg >= 0.05 iff num >= 5 * den
SentimentTrendMut(avg_compound) ==
  IF avg_compound.num > 5 * avg_compound.den THEN "positive"
  ELSE IF avg_compound.num <= (-5) * avg_compound.den THEN "negative"
  ELSE "neutral"
SentimentTrend(avg_compound) ==
  IF avg_compound.num >= 5 * avg_compound.den THEN "positive"
  ELSE IF avg_compound.num <= (-5) * avg_compound.den THEN "negative"
  ELSE "neutral"

summary_limit == 100
latest_count == 5

\* lines 762-828, for the list news_articles that get_news_for_symbol returned
sentiment_summary_of(symbol, days, news_articles) ==
  IF news_articles = <<>>
  THEN [symbol |-> symbol, period_days |-> days, article_count |-> 0,
        average_sentiment |-> [compound |-> ZeroMean, positive |-> ZeroMean,
                               negative |-> ZeroMean, neutral |-> ZeroMean],
        sentiment_trend |-> "neutral"]
  ELSE LET scores(field) == [i \in 1..Len(news_articles) |-> news_articles[i].sentiment[field]]
           avg_compound == Mean(scores("compound"))
       IN [symbol |-> symbol, period_days |-> days,
           article_count |-> Len(news_articles),
           average_sentiment |-> [compound |-> avg_compound,
                                  positive |-> Mean(scores("positive")),
                                  negative |-> Mean(scores("negative")),
                                  neutral |-> Mean(scores("neutral"))],
           sentiment_trend |-> SentimentTrend(avg_compound),
           latest_articles |->
             [i \in 1..Min(latest_count, Len(news_articles)) |->
                [title |-> news_articles[i].title, url |-> news_articles[i].url,
                 published_date |-> news_articles[i].published_date,
                 source |-> news_articles[i].source,
                 sentiment |-> news_articles[i].sentiment.compound]]]

QuerySymbols == Range(KnownSymbols)
QueryDays == 0..MaxDate
\* limits below, at and above the number of matches; 20 is the default
QueryLimits == {1, 2, 20}

\* The consumer of the read path makes one call at a time: readCall holds the
\* call and its result until the consumer has taken the result.
\* get_news_for_symbol(symbol, days, limit), lines 719-745
GetNews ==
  /\ readCall.op = "none"
  /\ \E symbol \in QuerySymbols, days \in QueryDays, limit \in QueryLimits,
        o \in StorageOutcomes :
       IF o = "ok"
       THEN \E news \in get_news_for_symbol(store, symbol, days, limit, now) :
              readCall' = [op |-> "news", symbol |-> symbol, days |-> days,
                           limit |-> limit, failed |-> FALSE, value |-> news]
       ELSE readCall' = [op |-> "news", symbol |-> symbol, days |-> days,
                         limit |-> limit, failed |-> TRUE, value |-> <<>>]
  /\ UNCHANGED <<store, now, fnCall, writer2, api, sched>>
  /\ UNCHANGED cycleVars

\* get_sentiment_summary(symbol, days), lines 758-828
GetSummary ==
  /\ readCall.op = "none"
  /\ \E symbol \in QuerySymbols, days \in QueryDays, o \in StorageOutcomes :
       \E news \in IF o = "ok"
                   THEN get_news_for_symbol(store, symbol, days, summary_limit, now)
                   ELSE {<<>>} :
          readCall' = [op |-> "summary", symbol |-> symbol, days |-> days,
                       limit |-> summary_limit, failed |-> (o # "ok"),
                       value |-> sentiment_summary_of(symbol, days, news)]
  /\ UNCHANGED <<store, now, fnCall, writer2, api, sched>>
  /\ UNCHANGED cycleVars

\* the stored documents of the read-path specification: document k has the
\* k-th URL, one of the k-th compound scores, any date and any symbol list
DocCompounds == << {20, 30}, {-40}, {60, 35}, {-5} >>
DocPaths == <<"/n1", "/n2", "/n3", "/n4", "/n5">>
SymbolLists == { <<"2222.SR">>, <<"1120.SR", "2222.SR">> }

Cyc(s, k) == s[((k - 1) % Len(s)) + 1]

\* a sentiment vector with the compound score c
SentimentVector(c) ==
  [compound |-> c, positive |-> (100 + c) \div 4, negative |-> (100 - c) \div 5,
   neutral |-> 100 - ((100 + c) \div 4) - ((100 - c) \div 5),
   polarity |-> 10, subjectivity |-> 50]

StoredDoc(k, date, symbols, c) ==
  [title |-> <<"w">>,
   url |-> [origin |-> "https://www.argaam.com", path |-> Cyc(DocPaths, k)],
   published_date |-> date, source |-> "Argaam", language |-> "en",
   content |-> <<"w">>, title_en |-> <<"w">>, content_en |-> <<"w">>,
   sentiment |-> SentimentVector(c),
   symbols |-> symbols, processed_at |-> date]

DocChoices(k) ==
  {StoredDoc(k, d, y, c) : d \in 0..MaxDate, y \in SymbolLists, c \in Cyc(DocCompounds, k)}

\* the stores holding documents 1..n; the dates are free, so insertion order
\* and date order are independent
RECURSIVE StoresOf(_)
StoresOf(n) ==
  IF n = 0 THEN {<<>>}
  ELSE {Append(st, doc) : st \in StoresOf(n - 1), doc \in DocChoices(n)}

ReadStores == UNION {StoresOf(n) : n \in 0..MaxDocs}

InitRead ==
  /\ store \in ReadStores
  /\ now = MaxDate - 1
  /\ readCall = NoCall
  /\ fnCall = NoCall
  /\ writer2 = NoCall
  /\ api = NoCall
  /\ sched = NoCall
  /\ InitCycle

\* the consumer takes the result of its call
ReadReturn ==
  /\ readCall.op # "none"
  /\ readCall' = NoCall
  /\ UNCHANGED <<store, now, fnCall, writer2, api, sched>>
  /\ UNCHANGED cycleVars

NextRead ==
  \/ GetNews
  \/ GetSummary
  \/ ReadReturn

SpecRead == InitRead /\ [][NextRead]_vars

\* ------------------------------------------------- reads during a store call
\* The query of get_news_for_symbol runs in the database while the insert
\* loop of store_news_in_db runs in the pipeline: a document is inserted in
\* one step, and the cursor sees every document stored before the query
\* began and any of the documents inserted while it ran.
Docs(view) == [i \in DOMAIN view |-> view[i].doc]

ReadViewsMut(st, seen) == {st \o st}
ReadViews(st, seen) ==
  {Docs(SelectSeq([i \in DOMAIN st |-> [pos |-> i, doc |-> st[i]]],
                  LAMBDA e : e.pos <= seen \/ e.pos \in late))
     : late \in SUBSET ((seen + 1)..Len(st))}

\* lines 719-731: the query is sent
ReadBegin ==
  /\ readCall.op = "none"
  /\ \E symbol \in QuerySymbols, days \in QueryDays, limit \in QueryLimits :
       readCall' = [op |-> "reading", symbol |-> symbol, days |-> days,
                    limit |-> limit, seen |-> Len(store)]
  /\ UNCHANGED <<store, now, fnCall, writer2, api, sched>>
  /\ UNCHANGED cycleVars

\* lines 731-745: list(cursor), or the except clauses
ReadEnd ==
  /\ readCall.op = "reading"
  /\ \E o \in StorageOutcomes :
       IF o = "ok"
       THEN \E view \in ReadViews(store, readCall.seen) :
            \E news \in get_news_for_symbol(view, readCall.symbol,
                                            readCall.days, readCall.limit, now) :
              readCall' = [op |-> "news", symbol |-> readCall.symbol,
                           days |-> readCall.days, limit |-> readCall.limit,
                           seen |-> readCall.seen, failed |-> FALSE,
                           value |-> news]
       ELSE readCall' = [op |-> "news", symbol |-> readCall.symbol,
                         days |-> readCall.days, limit |-> readCall.limit,
                         seen |-> readCall.seen, failed |-> TRUE, value |-> <<>>]
  /\ UNCHANGED <<store, now, fnCall, writer2, api, sched>>
  /\ UNCHANGED cycleVars

\* the candidates of the store call: one has the URL of the stored document
\* and another sentiment, two share a URL and differ in their date
ConcDocs ==
  {StoredDoc(1, MaxDate - 1, <<"2222.SR">>, 30),
   StoredDoc(2, 0, <<"2222.SR">>, -40),
   StoredDoc(2, MaxDate, <<"2222.SR">>, -40),
   StoredDoc(3, MaxDate - 1, <<"1120.SR", "2222.SR">>, 60)}

ConcBatches == UNION {[1..n -> ConcDocs] : n \in 0..MaxBatch}

ConcStores == {<<>>, <<StoredDoc(1, MaxDate - 1, <<"2222.SR">>, 20)>>}

\* a cycle has processed its articles and is about to call store_news_in_db
InitConc ==
  /\ store \in ConcStores
  /\ now = MaxDate - 1
  /\ readCall = NoCall
  /\ fnCall = NoCall
  /\ writer2 = NoCall
  /\ api = NoCall
  /\ sched = NoCall
  /\ cycles = 1
  /\ pc = "process"
  /\ outcome = "running"
  /\ \E batch \in ConcBatches :
       /\ all_articles = batch
       /\ processed_articles = batch
       /\ idx = Len(batch) + 1
       /\ results = [EmptyResults EXCEPT !.total_articles = Len(batch),
                                         !.processed_articles = Len(batch)]
  /\ src = Len(news_sources) + 1
  /\ stPc = "idle"
  /\ si = 1
  /\ stored_count = 0
  /\ storeCall = NoCall
  /\ log = "none"
  /\ fetchCall = NoCall
  /\ procCall = NoCall
  /\ cycleLog = [EmptyCycleLog EXCEPT !.fetched = [i \in DOMAIN news_sources |-> i]]

NextConc ==
  \/ StoreBegin
  \/ StoreFind
  \/ StoreInsert
  \/ StoreReturn
  \/ ReadBegin
  \/ ReadEnd
  \/ GetSummary
  \/ ReadReturn

SpecConc == InitConc /\ [][NextConc]_vars

\* ------------------------------------------- two store_news_in_db calls
\* A second store_news_in_db call (another collection cycle, started from
\* another thread or process) on the same collection. writer2 holds its
\* locals: the position in the loop of lines 625-638, the article index and
\* stored_count.
Writer2Begin(batch) ==
  [op |-> "store", pc |-> "find", batch |-> batch, si |-> 1,
   stored_count |-> 0, inserted |-> {}, ret |-> 0]

\* the except clauses of lines 643-649 in the second call
Store2Raise(e) ==
  /\ writer2' = [writer2 EXCEPT !.pc = "done",
                                !.ret = StoreExcept(e, writer2.stored_count).value]
  /\ UNCHANGED store

\* lines 627-630 in the second call
Store2Find ==
  /\ writer2.op = "store"
  /\ writer2.pc = "find"
  /\ writer2.si <= Len(writer2.batch)
  /\ \E o \in StorageOutcomes :
       IF o = "ok"
       THEN /\ writer2' = IF UrlExists(store, writer2.batch[writer2.si].url)
                          THEN [writer2 EXCEPT !.si = @ + 1]
                          ELSE [writer2 EXCEPT !.pc = "insert"]
            /\ UNCHANGED store
       ELSE Store2Raise(o)
  /\ UNCHANGED <<now, readCall, fnCall, api, sched>>
  /\ UNCHANGED cycleVars

\* lines 633-638 in the second call
Store2Insert ==
  /\ writer2.op = "store"
  /\ writer2.pc = "insert"
  /\ \E o \in StorageOutcomes :
       IF o = "ok"
       THEN /\ store' = Append(store, writer2.batch[writer2.si])
            /\ writer2' = [writer2 EXCEPT !.pc = "find", !.si = @ + 1,
                                          !.stored_count = @ + 1,
                                          !.inserted = @ \cup {writer2.si}]
       ELSE Store2Raise(o)
  /\ UNCHANGED <<now, readCall, fnCall, api, sched>>
  /\ UNCHANGED cycleVars

\* lines 640-641 in the second call
Store2Return ==
  /\ writer2.op = "store"
  /\ writer2.pc = "find"
  /\ writer2.si > Len(writer2.batch)
  /\ writer2' = [writer2 EXCEPT !.pc = "done", !.ret = writer2.stored_count]
  /\ UNCHANGED <<store, now, readCall, fnCall, api, sched>>
  /\ UNCHANGED cycleVars

\* the batches of the two calls: articles with two URLs
WriterDocs ==
  {StoredDoc(1, MaxDate - 1, <<"2222.SR">>, 30),
   StoredDoc(2, 0, <<"2222.SR">>, -40)}

WriterBatches == UNION {[1..n -> WriterDocs] : n \in 1..MaxBatch}

\* two cycles have processed their articles; the second has entered
\* store_news_in_db and the first is about to
InitWriters ==
  /\ store \in ConcStores
  /\ now = MaxDate - 1
  /\ readCall = NoCall
  /\ fnCall = NoCall
  /\ api = NoCall
  /\ sched = NoCall
  /\ \E batch \in WriterBatches : writer2 = Writer2Begin(batch)
  /\ cycles = 1
  /\ pc = "process"
  /\ outcome = "running"
  /\ \E batch \in WriterBatches :
       /\ all_articles = batch
       /\ processed_articles = batch
       /\ idx = Len(batch) + 1
       /\ results = [EmptyResults EXCEPT !.total_articles = Len(batch),
                                         !.processed_articles = Len(batch)]
  /\ src = Len(news_sources) + 1
  /\ stPc = "idle"
  /\ si = 1
  /\ stored_count = 0
  /\ storeCall = NoCall
  /\ log = "none"
  /\ fetchCall = NoCall
  /\ procCall = NoCall
  /\ cycleLog = [EmptyCycleLog EXCEPT !.fetched = [i \in DOMAIN news_sources |-> i]]

NextWriters ==
  \/ StoreBegin
  \/ StoreFind
  \/ StoreInsert
  \/ StoreReturn
  \/ Store2Find
  \/ Store2Insert
  \/ Store2Return

SpecWriters == InitWriters /\ [][NextWriters]_vars

\* ------------------------------------------------------ ConfidenceEvaluator
\* A dict is a record, None is NoneValue, a value that may be None is wrapped
\* as [v |-> value]; scores are exact fractions [num, den] with den > 0.
NoneValue == [None |-> TRUE]
EmptyDict == [k \in {} |-> 0]

IsNone(d) == DOMAIN d = {"None"}

\* `not d` for a dict or None
Falsy(d) == IsNone(d) \/ DOMAIN d = {}

\* d.get(k) where d is a dict
Get(d, k) == IF k \in DOMAIN d THEN [v |-> d[k]] ELSE NoneValue

Frac(n, d) == [num |-> n, den |-> d]
FracAdd(x, y) == Frac(x.num * y.den + y.num * x.den, x.den * y.den)
FracMul(x, w) == Frac(x.num * w.num, x.den * w.den)
FracLess(x, y) == x.num * y.den < y.num * x.den

\* the weights of lines 37-52: 0.6, 0.2 and 0.2 over their sum
technical_weight == Frac(3, 5)
news_weight == Frac(1, 5)
trend_weight == Frac(1, 5)

high_confidence_threshold == 75
medium_confidence_threshold == 60

\* sorted(items, key=..., reverse=True)[:n]: stable, largest key first
TopBy(items, keys, n) ==
  LET Pos(i) == 1 + Cardinality({j \in DOMAIN items :
                      keys[j] > keys[i] \/ (keys[j] = keys[i] /\ j < i)})
      sorted == [p \in 1..Len(items) |-> items[CHOOSE i \in DOMAIN items : Pos(i) = p]]
  IN SubSeq(sorted, 1, Min(n, Len(items)))

Strengths(items) == [i \in DOMAIN items |-> items[i].strength]
Impacts(items) == [i \in DOMAIN items |-> items[i].impact]

\* an arithmetic operation or a comparison on the strength of one of the
\* items raises TypeError: ok is whether the strength is a number
AnyBad(items) == \E i \in DOMAIN items : ~items[i].ok
MixedKeys(items) == AnyBad(items) /\ \E i \in DOMAIN items : items[i].ok

SumStrength(signals, direction) ==
  SumSeq([i \in DOMAIN signals |->
            IF signals[i].signal = direction THEN signals[i].strength ELSE 0])

\* evaluate_technical_signals, lines 69-126
evaluate_technical_signals(g) ==
  LET none == [technical_score |-> Frac(0, 1), technical_direction |-> "neutral",
               key_signals |-> <<>>]
  IN
  IF Falsy(g) \/ "signals" \notin DOMAIN g THEN none
  ELSE IF g.signals = <<>> THEN none
  ELSE IF \/ \E i \in DOMAIN g.signals :
                g.signals[i].signal \in {"bullish", "bearish"} /\ ~g.signals[i].ok
          \/ MixedKeys(g.signals)
  THEN [technical_score |-> Frac(0, 1), technical_direction |-> "neutral",
        key_signals |-> <<>>, error |-> "TypeError"]
  ELSE LET bullish_score == SumStrength(g.signals, "bullish")
           bearish_score == SumStrength(g.signals, "bearish")
           share(x) == LET f == Frac(100 * x, bullish_score + bearish_score + 1) IN
                       IF FracLess(Frac(100, 1), f) THEN Frac(100, 1) ELSE f
       IN [technical_score |->
             IF bullish_score > bearish_score THEN share(bullish_score)
             ELSE IF bearish_score > bullish_score THEN share(bearish_score)
             ELSE Frac(50, 1),
           technical_direction |->
             IF bullish_score > bearish_score THEN "bullish"
             ELSE IF bearish_score > bullish_score THEN "bearish"
             ELSE "neutral",
           bullish_score |-> bullish_score,
           bearish_score |-> bearish_score,
           key_signals |-> TopBy(g.signals, Strengths(g.signals), 3)]

\* evaluate_news_sentiment, lines 138-180; sentiment_score is in hundredths
evaluate_news_sentiment(n) ==
  IF Falsy(n) \/ "sentiment_score" \notin DOMAIN n
  THEN [news_score |-> Frac(50, 1), news_direction |-> "neutral", key_news |-> <<>>]
  ELSE IF ~n.sentiment_score.ok
          \/ ("news_items" \in DOMAIN n /\ MixedKeys(n.news_items))
  THEN [news_score |-> Frac(50, 1), news_direction |-> "neutral", key_news |-> <<>>,
        error |-> "TypeError"]
  ELSE LET news_score == Frac(n.sentiment_score.v + 100, 2)
           news_items == IF "news_items" \in DOMAIN n THEN n.news_items ELSE <<>>
       IN [news_score |-> news_score,
           news_direction |->
             IF FracLess(Frac(60, 1), news_score) THEN "bullish"
             ELSE IF FracLess(news_score, Frac(40, 1)) THEN "bearish"
             ELSE "neutral",
           sentiment_score |-> n.sentiment_score.v,
           key_news |-> TopBy(news_items, Impacts(news_items), 3)]

\* evaluate_trend_analysis, lines 192-235
evaluate_trend_analysis(t) ==
  IF Falsy(t) \/ "trend_direction" \notin DOMAIN t
  THEN [trend_score |-> Frac(50, 1), trend_direction |-> "neutral",
        key_trend_signals |-> <<>>]
  ELSE LET strength == IF "trend_strength" \in DOMAIN t THEN t.trend_strength
                       ELSE [v |-> 5, ok |-> TRUE]
           trend_signals == IF "signals" \in DOMAIN t THEN t.signals ELSE <<>>
           raw == IF t.trend_direction = "bullish" THEN 50 + strength.v * 5
                  ELSE IF t.trend_direction = "bearish" THEN 50 - strength.v * 5
                  ELSE 50
           clamped == IF raw > 100 THEN 100 ELSE IF raw < 0 THEN 0 ELSE raw
       IN IF \/ t.trend_direction \in {"bullish", "bearish"} /\ ~strength.ok
             \/ MixedKeys(trend_signals)
          THEN [trend_score |-> Frac(50, 1), trend_direction |-> "neutral",
                key_trend_signals |-> <<>>, error |-> "TypeError"]
          ELSE [trend_score |-> Frac(clamped, 1),
                trend_direction |-> t.trend_direction,
                trend_strength |-> strength,
                key_trend_signals |-> TopBy(trend_signals, Strengths(trend_signals), 3)]

\* the condition of lines 361, 370 and 379 for one key item, whose label is
\* its 'signal' or 'sentiment' and whose key is its 'strength' or 'impact'
SupportRaises(direction, label, ok) ==
  label # direction /\ direction = "neutral" /\ ~ok
Supports(direction, label, key) ==
  label = direction \/ (direction = "neutral" /\ key > 7)

\* _generate_recommendation, lines 343-416
generate_recommendation(direction, confidence_level, score, technical_eval, news_eval, trend_eval) ==
  LET key_technical == technical_eval.key_signals
      key_news == news_eval.key_news
      key_trend == trend_eval.key_trend_signals
      Points(items, type) ==
        LET sel == SelectSeq(items, LAMBDA x : Supports(direction, x.signal, x.strength))
        IN [i \in DOMAIN sel |-> [type |-> type, strength |-> sel[i].strength,
                                  ok |-> sel[i].ok]]
      news_sel == SelectSeq(key_news,
                    LAMBDA x : Supports(direction, x.sentiment, x.impact))
      news_points == [i \in DOMAIN news_sel |->
                        [type |-> "news", strength |-> news_sel[i].impact,
                         ok |-> news_sel[i].ok]]
      supporting_points == Points(key_technical, "technical") \o news_points
                           \o Points(key_trend, "trend")
      raises ==
        \/ \E i \in DOMAIN key_technical :
             SupportRaises(direction, key_technical[i].signal, key_technical[i].ok)
        \/ \E i \in DOMAIN key_news :
             SupportRaises(direction, key_news[i].sentiment, key_news[i].ok)
        \/ \E i \in DOMAIN key_trend :
             SupportRaises(direction, key_trend[i].signal, key_trend[i].ok)
        \/ MixedKeys(supporting_points)
  IN IF raises THEN [kind |-> "raise", value |-> NoneValue]
     ELSE [kind |-> "return", value |->
       [action |->
          IF direction = "bullish"
          THEN (IF confidence_level \in {"high", "medium"} THEN "Buy"
                ELSE "Hold with bullish bias")
          ELSE IF direction = "bearish"
          THEN (IF confidence_level \in {"high", "medium"} THEN "Sell"
                ELSE "Hold with bearish bias")
          ELSE "Hold",
        confidence_score |-> score,
        confidence_level |-> confidence_level,
        direction |-> direction,
        time_horizon |->
          IF \E i \in DOMAIN key_trend : key_trend[i].type = "long_term"
          THEN "Long-term (3-6 months)"
          ELSE IF \E i \in DOMAIN key_technical : key_technical[i].type = "intermediate"
          THEN "Medium-term (1-3 months)"
          ELSE "Short-term (1-4 weeks)",
        risk_level |-> IF confidence_level = "high" THEN "Low to Medium"
                       ELSE IF confidence_level = "medium" THEN "Medium"
                       ELSE "High",
        supporting_points |->
          TopBy(supporting_points, Strengths(supporting_points), 5)]]

\* the except clause of calculate_overall_confidence, lines 312-320
OverallExcept(e) ==
  [overall_score |-> Frac(50, 1), overall_direction |-> "neutral",
   confidence_level |-> "low",
   recommendation |-> "Hold - Insufficient data for recommendation",
   error |-> e]

\* calculate_overall_confidence, lines 252-320
calculate_overall_confidence(technical_eval, news_eval, trend_eval) ==
  LET technical_contribution == FracMul(technical_eval.technical_score, technical_weight)
      news_contribution == FracMul(news_eval.news_score, news_weight)
      trend_contribution == FracMul(trend_eval.trend_score, trend_weight)
      weighted_score == FracAdd(FracAdd(technical_contribution, news_contribution),
                                trend_contribution)
      directions == << technical_eval.technical_direction, news_eval.news_direction,
                       trend_eval.trend_direction >>
      weights == << technical_weight, news_weight, trend_weight >>
      WeightOf(d) ==
        FracAdd(FracAdd(IF directions[1] = d THEN weights[1] ELSE Frac(0, 1),
                        IF directions[2] = d THEN weights[2] ELSE Frac(0, 1)),
                IF directions[3] = d THEN weights[3] ELSE Frac(0, 1))
      overall_direction ==
        IF FracLess(WeightOf("bearish"), WeightOf("bullish")) THEN "bullish"
        ELSE IF FracLess(WeightOf("bullish"), WeightOf("bearish")) THEN "bearish"
        ELSE "neutral"
      confidence_level ==
        IF ~FracLess(weighted_score, Frac(high_confidence_threshold, 1)) THEN "high"
        ELSE IF ~FracLess(weighted_score, Frac(medium_confidence_threshold, 1))
        THEN "medium"
        ELSE "low"
      recommendation == generate_recommendation(overall_direction, confidence_level,
                          weighted_score, technical_eval, news_eval, trend_eval)
  IN IF recommendation.kind = "raise" THEN OverallExcept("TypeError")
     ELSE [overall_score |-> weighted_score,
           overall_direction |-> overall_direction,
           confidence_level |-> confidence_level,
           technical_contribution |-> technical_contribution,
           news_contribution |-> news_contribution,
           trend_contribution |-> trend_contribution,
           recommendation |-> recommendation.value]

\* `golden_opportunity_results.get(k) or trend_results.get(k)`, lines 451-452:
\* .get on None raises AttributeError; the values of the model are truthy
LatestRaises(g, t, k) == IsNone(g) \/ (k \notin DOMAIN g /\ IsNone(t))
Latest(g, t, k) == IF k \in DOMAIN g THEN Get(g, k) ELSE Get(t, k)

\* the except clause of evaluate_stock, lines 472-487
EvaluateStockExceptMut(symbol, e, now_) == [kind |-> "raise", value |-> NoneValue]
EvaluateStockExcept(symbol, e, now_) ==
  [kind |-> "return", value |->
     [symbol |-> symbol, evaluation_time |-> now_,
      overall_score |-> [v |-> Frac(50, 1)],
      overall_direction |-> [v |-> "neutral"],
      confidence_level |-> [v |-> "low"],
      recommendation |-> [v |-> [action |-> "Hold - Error in evaluation",
                                 confidence_score |-> 0,
                                 confidence_level |-> "low",
                                 supporting_points |-> <<>>]],
      error |-> e]]

\* evaluate_stock, lines 435-487
evaluate_stock(symbol, g, n, t, now_) ==
  LET technical_eval == evaluate_technical_signals(g)
      news_eval == evaluate_news_sentiment(n)
      trend_eval == evaluate_trend_analysis(t)
      overall_result == calculate_overall_confidence(technical_eval, news_eval,
                                                     trend_eval)
  IN IF LatestRaises(g, t, "latest_price") \/ LatestRaises(g, t, "latest_date")
     THEN EvaluateStockExcept(symbol, "AttributeError", now_)
     ELSE [kind |-> "return", value |->
             [symbol |-> symbol, evaluation_time |-> now_,
              latest_price |-> Latest(g, t, "latest_price"),
              latest_date |-> Latest(g, t, "latest_date"),
              overall_score |-> Get(overall_result, "overall_score"),
              overall_direction |-> Get(overall_result, "overall_direction"),
              confidence_level |-> Get(overall_result, "confidence_level"),
              recommendation |-> Get(overall_result, "recommendation"),
              technical_evaluation |-> technical_eval,
              news_evaluation |-> news_eval,
              trend_evaluation |-> trend_eval]]

\* ------------------------------------------------------------ direct calls
\* The functions below are called one at a time on inputs drawn from bounded
\* sets; fnCall holds the call and what it returned.
PureTokens ==
  {"w", SP, "aramco", "Aramco", "ARAMCO", "saudi", "al", "rajhi", "Rajhi",
   "bank", "2222.SR", "2222.sr", "1120.SR"}

PureTexts == UNION {[1..n -> PureTokens] : n \in 0..MaxTextLen}

DateNums ==
  {Num(2024, 4), Num(0, 4), Num(123, 3), Num(31, 2), Num(24, 2), Num(13, 2),
   Num(2, 2), Num(0, 2), Num(5, 1)}

DateSeps == {"-", "/", "."}

NamedStyles == {"%b %d, %Y", "%d %b %Y", "%B %d, %Y", "%d %B %Y"}

DateStrings ==
  {BlankDate, [kind |-> "garbage"]}
  \cup {[kind |-> "numeric", a |-> a, b |-> b, c |-> c, sep1 |-> s1, sep2 |-> s2,
         junk |-> j] :
          a \in DateNums, b \in DateNums,
          c \in DateNums, s1 \in DateSeps, s2 \in DateSeps, j \in BOOLEAN}
  \cup {[kind |-> "named", style |-> st, d |-> d, m |-> m, y |-> 2024] :
          st \in NamedStyles, d \in {5, 30, 31}, m \in {2, 4, 12}}

PureArticles ==
  {[title |-> ti, url |-> [origin |-> "https://www.argaam.com", path |-> "/n1"],
    published_date |-> 0, source |-> news_sources[k].name,
    language |-> news_sources[k].language, content |-> co] :
     ti \in {<<>>, <<SP>>, <<"w">>, <<"Aramco">>},
     co \in {<<>>, <<"w", SP, "1120.SR">>},
     k \in DOMAIN news_sources}

B8 == [signal |-> "bullish", strength |-> 8, ok |-> TRUE, type |-> "Hammer"]
B7 == [signal |-> "bullish", strength |-> 7, ok |-> TRUE, type |-> "intermediate"]
R9 == [signal |-> "bearish", strength |-> 9, ok |-> TRUE, type |-> "long_term"]
HX == [signal |-> "hold", strength |-> 0, ok |-> FALSE, type |-> "RSI"]
BX == [signal |-> "bullish", strength |-> 0, ok |-> FALSE, type |-> "RSI"]

GoldenInputs ==
  {NoneValue, EmptyDict, [signals |-> <<>>],
   [latest_price |-> 98, latest_date |-> 1],
   [signals |-> <<B8, B7>>, latest_price |-> 98, latest_date |-> 1],
   [signals |-> <<R9, B7>>],
   [signals |-> <<HX>>, latest_price |-> 98, latest_date |-> 1],
   [signals |-> <<BX>>]}

NewsInputs ==
  {NoneValue, EmptyDict,
   [news_items |-> <<[sentiment |-> "bullish", impact |-> 8, ok |-> TRUE]>>],
   [sentiment_score |-> [v |-> 60, ok |-> TRUE],
    news_items |-> <<[sentiment |-> "bullish", impact |-> 8, ok |-> TRUE]>>],
   [sentiment_score |-> [v |-> -60, ok |-> TRUE]],
   [sentiment_score |-> [v |-> 0, ok |-> FALSE]]}

TrendInputs ==
  {NoneValue, EmptyDict,
   [trend_direction |-> "bullish", trend_strength |-> [v |-> 7, ok |-> TRUE],
    signals |-> <<B8>>, latest_price |-> 99, latest_date |-> 1],
   [trend_direction |-> "bearish", trend_strength |-> [v |-> 12, ok |-> TRUE],
    signals |-> <<R9>>],
   [trend_direction |-> "bullish", trend_strength |-> [v |-> 0, ok |-> FALSE]],
   [trend_direction |-> "neutral", trend_strength |-> [v |-> 0, ok |-> FALSE],
    signals |-> <<HX>>]}

InitPure ==
  /\ store = <<>>
  /\ now = MaxDate
  /\ InitCycle
  /\ readCall = NoCall
  /\ fnCall = NoCall
  /\ writer2 = NoCall
  /\ api = NoCall
  /\ sched = NoCall

CallAnalyzeSentiment ==
  /\ fnCall.op = "none"
  /\ \E text \in PureTexts, so \in ScorerOutcomes :
       fnCall' = [op |-> "analyze_sentiment", text |-> text, so |-> so,
                  value |-> analyze_sentiment(text, so)]
  /\ UNCHANGED <<store, now, readCall, writer2, api, sched>>
  /\ UNCHANGED cycleVars

CallExtractSymbols ==
  /\ fnCall.op = "none"
  /\ \E text \in PureTexts :
       fnCall' = [op |-> "extract_stock_symbols", text |-> text,
                  value |-> extract_stock_symbols(text)]
  /\ UNCHANGED <<store, now, readCall, writer2, api, sched>>
  /\ UNCHANGED cycleVars

CallParseDate ==
  /\ fnCall.op = "none"
  /\ \E ds \in DateStrings :
       fnCall' = [op |-> "parse_date", date_str |-> ds, out |-> parse_date(ds, now)]
  /\ UNCHANGED <<store, now, readCall, writer2, api, sched>>
  /\ UNCHANGED cycleVars

CallProcess ==
  /\ fnCall.op = "none"
  /\ \E article \in PureArticles, ft \in FailPatterns, fc \in FailPatterns,
        so \in ScorerOutcomes :
       fnCall' = [op |-> "process_news_article", article |-> article,
                  ft |-> ft, fc |-> fc, so |-> so,
                  out |-> process_news_article(article, ft, fc, so, now)]
  /\ UNCHANGED <<store, now, readCall, writer2, api, sched>>
  /\ UNCHANGED cycleVars

CallEvaluateStock ==
  /\ fnCall.op = "none"
  /\ \E symbol \in Range(KnownSymbols), g \in GoldenInputs, n \in NewsInputs,
        t \in TrendInputs :
       fnCall' = [op |-> "evaluate_stock", golden |-> g, news |-> n, trend |-> t,
                  out |-> evaluate_stock(symbol, g, n, t, now)]
  /\ UNCHANGED <<store, now, readCall, writer2, api, sched>>
  /\ UNCHANGED cycleVars

\* texts for direct translate_text calls: the short ones, and long ones whose
\* lengths lie on both sides of the threshold of line 142 and of a multiple
\* of the slice length of line 147
ShortTexts == UNION {[1..n -> {"w", SP}] : n \in 0..MaxTextLen}
LongLengths ==
  {translate_threshold - 1, translate_threshold, translate_threshold + 1,
   2 * translate_chunk_size, 2 * translate_chunk_size + 1}
LongText(n) == [i \in 1..n |-> IF i % 7 = 0 THEN SP ELSE "w"]
BlankText(n) == [i \in 1..n |-> SP]
TranslateTexts ==
  ShortTexts \cup {LongText(n) : n \in LongLengths}
             \cup {BlankText(translate_threshold)}

CallTranslate ==
  /\ fnCall.op = "none"
  /\ \E text \in TranslateTexts, fails \in FailPatterns :
       fnCall' = [op |-> "translate_text", text |-> text, fails |-> fails,
                  out |-> translate_text(text, fails)]
  /\ UNCHANGED <<store, now, readCall, writer2, api, sched>>
  /\ UNCHANGED cycleVars

CallFetchSource ==
  /\ fnCall.op = "none"
  /\ \E s \in DOMAIN news_sources, outs \in FetchPatterns, listing \in DirectListings :
       fnCall' = [op |-> "fetch_news_from_source", source |-> news_sources[s],
                  outs |-> outs, listing |-> listing,
                  out |-> fetch_news_from_source(news_sources[s], outs, listing, now)]
  /\ UNCHANGED <<store, now, readCall, writer2, api, sched>>
  /\ UNCHANGED cycleVars

CallReturn ==
  /\ fnCall.op # "none"
  /\ fnCall' = NoCall
  /\ UNCHANGED <<store, now, readCall, writer2, api, sched>>
  /\ UNCHANGED cycleVars

NextPure ==
  \/ CallReturn
  \/ CallAnalyzeSentiment
  \/ CallExtractSymbols
  \/ CallParseDate
  \/ CallProcess
  \/ CallEvaluateStock
  \/ CallTranslate
  \/ CallFetchSource

SpecPure == InitPure /\ [][NextPure]_vars

\* ------------------------------------------------------------ NewsAPIClient
\* api is [keys, files, clock, call]: the APIs that have a key, the cache file
\* of each API for one fixed query (its JSON content, its mtime, and for the
\* claims what the call that wrote it returned), time.time(), and the last
\* call. A JSON value written by json.dump and read back by json.load is the
\* value response.json() gave, so a file holds the response itself.
ApiNames == {"alpha_vantage", "newsapi", "finnhub"}

cache_expiration == 3600

MaxTicks == 3
TickSeconds == cache_expiration \div 2

NoFile == [exists |-> FALSE]

\* items of the three APIs' responses, with the fields the code reads
AlphaItem(u, parses) ==
  [title |-> <<"w">>, url |-> u, time_published |-> [parses |-> parses, date |-> 1],
   source |-> "wire", summary |-> <<"w", SP, "w">>,
   overall_sentiment_score |-> 1, ticker_sentiment |-> <<>>]
NewsapiItem(u, content) ==
  [title |-> <<"w">>, url |-> u, publishedAt |-> 1, source |-> [name |-> "wire"],
   content |-> content, description |-> <<"w">>]
FinnhubItem(u, summary) ==
  [headline |-> <<"w">>, url |-> u, datetime |-> 1, source |-> "wire",
   summary |-> summary, related |-> ""]

Removed == <<"[Removed]">>

\* response.json() of an answered request
ApiResponses(name) ==
  CASE name = "alpha_vantage" ->
         { [feed |-> <<>>],
           [Note |-> "rate limit"],
           [feed |-> <<AlphaItem("u1", TRUE)>>],
           [feed |-> <<AlphaItem("u1", TRUE), AlphaItem("u2", FALSE)>>] }
    [] name = "newsapi" ->
         { [status |-> "ok", articles |-> <<>>],
           [status |-> "ok", articles |-> <<NewsapiItem("u1", <<"w">>)>>],
           [status |-> "ok", articles |-> <<NewsapiItem("u1", EmptyText),
                                            NewsapiItem("u2", Removed)>>] }
    [] OTHER ->
         { [list |-> <<>>],
           [list |-> <<FinnhubItem("u1", <<"w">>)>>],
           [list |-> <<FinnhubItem("u1", EmptyText), FinnhubItem("u2", <<"w">>)>>] }

\* `if cached_data:` of lines 149, 227, 311: an empty list is falsy, a dict
\* with a key is truthy
Truthy(name, data) == IF name = "finnhub" THEN data.list # <<>> ELSE TRUE

\* what a cache hit returns: lines 150, 228, 312
CachedList(name, data) ==
  CASE name = "alpha_vantage" -> IF "feed" \in DOMAIN data THEN data.feed ELSE <<>>
    [] name = "newsapi" -> IF "articles" \in DOMAIN data THEN data.articles ELSE <<>>
    [] OTHER -> data.list

\* the article built from one item: lines 177-191, 267-275, 352-360
NormalizeItem(name, item) ==
  CASE name = "alpha_vantage" ->
         [title |-> item.title, url |-> item.url,
          published_date |-> item.time_published.date, source |-> item.source,
          language |-> "en", content |-> item.summary,
          sentiment |-> [compound |-> item.overall_sentiment_score,
                         positive |-> 0, negative |-> 0, neutral |-> 0],
          symbols |-> <<>>]
    [] name = "newsapi" ->
         [title |-> item.title, url |-> item.url,
          published_date |-> item.publishedAt, source |-> item.source.name,
          language |-> "en",
          content |-> item.content \o <<SP>> \o item.description,
          symbols |-> <<>>]
    [] OTHER ->
         [title |-> item.headline, url |-> item.url,
          published_date |-> item.datetime, source |-> item.source,
          language |-> "en", content |-> item.summary,
          symbols |-> IF item.related # "" THEN <<item.related>> ELSE <<>>]

\* `continue` of lines 264-265 and 349-350
Skipped(name, item) ==
  CASE name = "newsapi" -> item.content = EmptyText \/ item.content = Removed
    [] name = "finnhub" -> item.summary = EmptyText
    [] OTHER -> FALSE

\* datetime.fromisoformat of line 180 raises on a string it cannot parse
NormalizeRaises(name, item) ==
  name = "alpha_vantage" /\ ~item.time_published.parses

\* the loops of lines 175-195, 261-279, 346-364 and the except clauses after
\* them: the list the call returns after a fetch
FetchedList(name, data) ==
  LET items == CachedList(name, data)
      kept == SelectSeq(items, LAMBDA x : ~Skipped(name, x))
  IN IF \E i \in DOMAIN items : NormalizeRaises(name, items[i])
     THEN <<>>
     ELSE [i \in DOMAIN kept |-> NormalizeItem(name, kept[i])]

\* _get_from_cache, lines 80-101
get_from_cache(files, name, clock) ==
  IF ~files[name].exists THEN NoneValue
  ELSE IF clock - files[name].mtime > cache_expiration THEN NoneValue
  ELSE [v |-> files[name].data]

\* _save_to_cache, lines 115-126
SaveOutcomes == {"ok", "OSError"}
save_to_cache(files, name, data, clock, o, returned) ==
  IF o = "ok"
  THEN [files EXCEPT ![name] = [exists |-> TRUE, data |-> data, mtime |-> clock,
                                returned |-> returned]]
  ELSE files

InitApi ==
  /\ api \in {[keys |-> ks, files |-> [n \in ApiNames |-> NoFile], clock |-> 0,
               call |-> NoCall] : ks \in {ApiNames, {}}}
  /\ store = <<>>
  /\ now = 0
  /\ readCall = NoCall
  /\ fnCall = NoCall
  /\ writer2 = NoCall
  /\ sched = NoCall
  /\ InitCycle

\* the body the three get_*_news methods share
GetApiNews(name) ==
  /\ api.call.op = "none"
  /\ IF name \notin api.keys
     THEN api' = [api EXCEPT !.call = [op |-> name, hit |-> FALSE, fetched |-> FALSE,
                                       value |-> <<>>]]
     ELSE LET cached == get_from_cache(api.files, name, api.clock) IN
          IF ~IsNone(cached) /\ Truthy(name, cached.v)
          THEN api' = [api EXCEPT !.call =
                         [op |-> name, hit |-> TRUE, fetched |-> FALSE,
                          value |-> CachedList(name, cached.v),
                          written |-> api.files[name].returned]]
          ELSE \E r \in ApiResponses(name) \cup {[RequestException |-> TRUE]},
                  o \in SaveOutcomes :
                 IF "RequestException" \in DOMAIN r
                 THEN api' = [api EXCEPT !.call =
                                [op |-> name, hit |-> FALSE, fetched |-> FALSE,
                                 value |-> <<>>]]
                 ELSE api' = [api EXCEPT
                        !.files = save_to_cache(@, name, r, api.clock, o,
                                                FetchedList(name, r)),
                        !.call = [op |-> name, hit |-> FALSE, fetched |-> TRUE,
                                  value |-> FetchedList(name, r)]]
  /\ UNCHANGED <<store, now, readCall, fnCall, writer2, sched>>
  /\ UNCHANGED cycleVars

GetAlphaVantageNews == GetApiNews("alpha_vantage")
GetNewsapiNews == GetApiNews("newsapi")
GetFinnhubNews == GetApiNews("finnhub")

ApiReturn ==
  /\ api.call.op # "none"
  /\ api' = [api EXCEPT !.call = NoCall]
  /\ UNCHANGED <<store, now, readCall, fnCall, writer2, sched>>
  /\ UNCHANGED cycleVars

\* time passes between two calls
Tick ==
  /\ api.call.op = "none"
  /\ api.clock < MaxTicks * TickSeconds
  /\ api' = [api EXCEPT !.clock = @ + TickSeconds]
  /\ UNCHANGED <<store, now, readCall, fnCall, writer2, sched>>
  /\ UNCHANGED cycleVars

NextApi ==
  \/ GetAlphaVantageNews
  \/ GetNewsapiNews
  \/ GetFinnhubNews
  \/ ApiReturn
  \/ Tick

SpecApi == InitApi /\ [][NextApi]_vars

\* ------------------------------------------------------------ NewsScheduler
\* sched is [is_running, scheduler_thread, threads, jobs, runs, pc, active,
\* start, stop]: the two fields of the object, the state of each thread
\* start_scheduler created, the jobs of the schedule module, the number of
\* job runs, the position of the caller inside start_scheduler or
\* stop_scheduler, and for the claims whether the last successful call was a
\* start, and the last start and stop calls with what they returned.
MaxThreads == 2
MaxJobs == 1
MaxRuns == 2

hour_minutes == 60

Intervals == {1, 59, 60, 90, 120}

ThreadIds == 1..MaxThreads

\* lines 81-89: the job schedule_job registers for interval_minutes
ScheduledJob(interval_minutes) ==
  IF interval_minutes < hour_minutes
  THEN [interval_minutes |-> interval_minutes, every |-> interval_minutes,
        unit |-> "minutes"]
  ELSE [interval_minutes |-> interval_minutes,
        every |-> interval_minutes \div hour_minutes, unit |-> "hours"]

\* the time between two runs of a job of the schedule module, in minutes
PeriodMinutes(job) ==
  IF job.unit = "hours" THEN job.every * hour_minutes ELSE job.every

\* __init__, lines 35-37, with no job scheduled and no call made
InitSched ==
  /\ sched = [is_running |-> FALSE, scheduler_thread |-> 0,
              threads |-> [t \in ThreadIds |-> "none"],
              jobs |-> <<>>, runs |-> 0, pc |-> "idle", active |-> FALSE,
              start |-> NoCall, stop |-> NoCall]
  /\ store = <<>>
  /\ now = 0
  /\ readCall = NoCall
  /\ fnCall = NoCall
  /\ writer2 = NoCall
  /\ api = NoCall
  /\ InitCycle

SchedFrame ==
  /\ UNCHANGED <<store, now, readCall, fnCall, writer2, api>>
  /\ UNCHANGED cycleVars

\* schedule_job, lines 51-91
ScheduleJob ==
  /\ sched.pc = "idle"
  /\ Len(sched.jobs) < MaxJobs
  /\ \E m \in Intervals :
       sched' = [sched EXCEPT !.jobs = Append(@, ScheduledJob(m))]
  /\ SchedFrame

\* start_scheduler, line 104: the check of is_running
StartCheck ==
  /\ sched.pc = "idle"
  /\ \E t \in ThreadIds : sched.threads[t] = "none"
  /\ sched' = IF sched.is_running
              THEN [sched EXCEPT !.start = [op |-> "start", prior |-> sched.active,
                                            done |-> TRUE, ret |-> FALSE]]
              ELSE [sched EXCEPT !.pc = "start_thread",
                                 !.start = [op |-> "start", prior |-> sched.active,
                                            done |-> FALSE, ret |-> FALSE]]
  /\ SchedFrame

\* start_scheduler, lines 123-131: the thread is created and started, or
\* Thread.start raises
StartThread ==
  /\ sched.pc = "start_thread"
  /\ \E o \in {"ok", "RuntimeError"} :
       IF o = "ok"
       THEN LET t == CHOOSE x \in ThreadIds :
                       /\ sched.threads[x] = "none"
                       /\ \A y \in ThreadIds : sched.threads[y] = "none" => x <= y
            IN sched' = [sched EXCEPT !.threads[t] = "started",
                                      !.scheduler_thread = t,
                                      !.pc = "idle",
                                      !.active = TRUE,
                                      !.start.done = TRUE,
                                      !.start.ret = TRUE]
       ELSE sched' = [sched EXCEPT !.is_running = FALSE,
                                   !.pc = "idle",
                                   !.start.done = TRUE,
                                   !.start.ret = FALSE]
  /\ SchedFrame

\* stop_scheduler, line 140: the check of is_running
StopCheck ==
  /\ sched.pc = "idle"
  /\ sched' = IF ~sched.is_running
              THEN [sched EXCEPT !.stop = [op |-> "stop", after_start |-> sched.active,
                                           done |-> TRUE, ret |-> FALSE]]
              ELSE [sched EXCEPT !.pc = "stop_set",
                                 !.stop = [op |-> "stop", after_start |-> sched.active,
                                           done |-> FALSE, ret |-> FALSE]]
  /\ SchedFrame

\* stop_scheduler, line 145
StopSet ==
  /\ sched.pc = "stop_set"
  /\ sched' = [sched EXCEPT !.is_running = FALSE, !.pc = "stop_join"]
  /\ SchedFrame

\* stop_scheduler, lines 146-149: join(timeout=5) comes back when the thread
\* has ended or when the 5 seconds are over, and the call returns True
StopJoin ==
  /\ sched.pc = "stop_join"
  /\ sched' = [sched EXCEPT !.pc = "idle", !.active = FALSE,
                            !.stop.done = TRUE, !.stop.ret = TRUE]
  /\ SchedFrame

\* run_scheduler, line 112: the thread begins and sets is_running
ThreadBegin(t) ==
  /\ sched.threads[t] = "started"
  /\ sched' = [sched EXCEPT !.is_running = TRUE, !.threads[t] = "loop"]
  /\ SchedFrame

\* run_scheduler, lines 113 and 120: the test of the while loop
ThreadLoop(t) ==
  /\ sched.threads[t] = "loop"
  /\ sched' = [sched EXCEPT !.threads[t] = IF sched.is_running THEN "pending"
                                            ELSE "exited"]
  /\ SchedFrame

\* run_scheduler, lines 114-119: schedule.run_pending() runs the jobs that
\* are due, then the thread sleeps
ThreadRunPending(t) ==
  /\ sched.threads[t] = "pending"
  /\ \E due \in BOOLEAN :
       sched' = [sched EXCEPT
                   !.threads[t] = "loop",
                   !.runs = IF due /\ sched.jobs # <<>> /\ @ < MaxRuns
                            THEN @ + 1 ELSE @]
  /\ SchedFrame

NextSched ==
  \/ ScheduleJob
  \/ StartCheck
  \/ StartThread
  \/ StopCheck
  \/ StopSet
  \/ StopJoin
  \/ \E t \in ThreadIds : ThreadBegin(t)
  \/ \E t \in ThreadIds : ThreadLoop(t)
  \/ \E t \in ThreadIds : ThreadRunPending(t)

SpecSched == InitSched /\ [][NextSched]_vars

\* ------------------------------------------------------------------ claims
SummaryFields ==
  {"total_articles", "processed_articles", "stored_articles", "sources", "errors"}

UrlsUnique ==
  \A i, j \in DOMAIN store : store[i].url = store[j].url => i = j

\* a step of the insert loop that looks up an article whose URL is stored,
\* the lookup itself not failing
LookupOfStoredUrl ==
  /\ pc = "store" /\ stPc = "find" /\ si <= Len(processed_articles)
  /\ processed_articles[si].url \in StoredUrls(store)
  /\ storeCall'.visited # storeCall.visited
  /\ log' # "error"

\* C1: no two stored articles ever share a url, and looking up an article
\* whose URL is already stored leaves the store and the count of newly
\* stored articles unchanged, logs "already exists", records no error and
\* moves on to the next article.
C1_IdempotentStore ==
  /\ []UrlsUnique
  /\ [][LookupOfStoredUrl =>
          /\ store' = store
          /\ stored_count' = stored_count
          /\ log' = "already exists"
          /\ si' = si + 1
          /\ results'.errors = results.errors
          /\ cycleLog'.storageFault = cycleLog.storageFault]_vars

\* a duplicate inside one batch is skipped in a repeated cycle
C1_Witness ==
  /\ log = "already exists"
  /\ cycles = 2
  /\ \E i, j \in DOMAIN processed_articles :
       i < j /\ j < si /\ processed_articles[i].url = processed_articles[j].url
  /\ UrlsUnique

\* C2: when store_news_in_db has returned, every article of its batch has
\* been looked up, whatever storage failures happened on earlier articles.
C2_FaultDoesNotAbortBatch ==
  (storeCall.op = "store" /\ storeCall.done) =>
     storeCall.visited = DOMAIN storeCall.batch

\* C3: the value store_news_in_db returns is the number of articles the
\* call inserted, that is the growth of the store during the call.
C3_ReturnsInsertedCount ==
  (storeCall.op = "store" /\ storeCall.done) =>
     /\ storeCall.ret = Len(store) - Len(storeCall.store0)
     /\ storeCall.ret = Cardinality(storeCall.inserted)

\* C4: a fetch whose listing GET fails on every attempt makes at most 3 GETs
\* and returns the empty list; it neither raises nor returns None.
C4_FetchRetryBound ==
  (fetchCall.op = "fetch" /\ AllRequestsFail(fetchCall.outs)) =>
     /\ fetchCall.gets <= 3
     /\ fetchCall.kind = "return"
     /\ fetchCall.value = <<>>

C4_Witness ==
  /\ fetchCall.op = "fetch"
  /\ AllRequestsFail(fetchCall.outs)
  /\ fetchCall.gets = 3
  /\ fetchCall.value = <<>>

\* C5: translate_text makes at most 3 translator calls and always returns a
\* text; when all its translator calls fail it returns the original text,
\* so an Arabic article whose translations fail on every attempt gets
\* title_en = title and content_en = content.
C5_TranslationFallback ==
  (procCall.op = "process" /\ procCall.article.language = "ar") =>
     /\ procCall.title_tr.calls <= 3
     /\ procCall.content_tr.calls <= 3
     /\ procCall.title_tr.kind = "return"
     /\ procCall.content_tr.kind = "return"
     /\ procCall.title_failed =>
          /\ procCall.title_tr.value = procCall.article.title
          /\ procCall.out.title_en = procCall.article.title
     /\ procCall.content_failed =>
          /\ procCall.content_tr.value = procCall.article.content
          /\ procCall.out.content_en = procCall.article.content

C5_Witness ==
  /\ procCall.op = "process"
  /\ procCall.article.language = "ar"
  /\ procCall.title_failed /\ procCall.content_failed
  /\ procCall.title_tr.calls = 3 /\ procCall.content_tr.calls = 3
  /\ procCall.article.content # EmptyText
  /\ procCall.out.content_en = procCall.article.content
  /\ procCall.out.title_en = procCall.article.title

\* C6: collect_and_analyze_news never raises, and what it returns is a
\* summary with exactly the fields total_articles, processed_articles,
\* stored_articles, sources and errors.
C6_SummaryAlwaysReturned ==
  /\ outcome # "raised"
  /\ (outcome = "returned") =>
        /\ DOMAIN results = SummaryFields
        /\ results.total_articles \in Nat
        /\ results.processed_articles \in Nat
        /\ results.stored_articles \in Nat
        /\ DOMAIN results.sources \subseteq SourceNames

\* a cycle with a fetch that raised and a storage failure has returned
C6_Witness ==
  /\ outcome = "returned"
  /\ results.errors # <<>>
  /\ cycleLog.storageFault
  /\ results.total_articles > 0

\* C7: a cycle whose store phase met a storage error returns a summary whose
\* errors list has an entry for that storage failure.
C7_StorageFaultRecorded ==
  (outcome = "returned" /\ cycleLog.storageFault) =>
     \E i \in DOMAIN results.errors :
        results.errors[i].in = "collect" /\ results.errors[i].what = "PyMongoError"

\* C8: a cycle in which every configured source exhausted its retries returns
\* an all-zero summary whose errors list is not empty.
C8_TotalFailureReported ==
  (outcome = "returned" /\ cycleLog.exhausted = DOMAIN news_sources) =>
     /\ results.total_articles = 0
     /\ results.processed_articles = 0
     /\ results.stored_articles = 0
     /\ results.errors # <<>>

\* the documents of the store that a query for symbol over days matches
Matching(symbol, days) ==
  {i \in DOMAIN store :
     /\ symbol \in Range(store[i].symbols)
     /\ store[i].published_date >= now - days
     /\ store[i].published_date <= now}

\* C9: a get_news_for_symbol call that the store answers returns stored
\* documents that match the symbol and lie in [now - days, now], each once,
\* newest first, min(limit, number of matches) of them, and no matching
\* document left out is newer than a returned one; without a match the list
\* is empty.
C9_NewsForSymbol ==
  (readCall.op = "news" /\ ~readCall.failed) =>
     LET M == Matching(readCall.symbol, readCall.days)
         r == readCall.value
     IN /\ \A i \in DOMAIN r : \E m \in M : store[m] = r[i]
        /\ \A i, j \in DOMAIN r : r[i] = r[j] => i = j
        /\ Len(r) = Min(readCall.limit, Cardinality(M))
        /\ \A i, j \in DOMAIN r : i < j => r[i].published_date >= r[j].published_date
        /\ \A m \in M : (\A i \in DOMAIN r : r[i] # store[m]) =>
              \A i \in DOMAIN r : r[i].published_date >= store[m].published_date
        /\ (M = {}) => r = <<>>

\* a query that truncates: two matches of different dates and limit 1, the
\* newer one returned, and a document with the symbol outside the window
C9_Witness ==
  /\ readCall.op = "news" /\ ~readCall.failed
  /\ readCall.limit = 1
  /\ Len(readCall.value) = 1
  /\ LET M == Matching(readCall.symbol, readCall.days) IN
       /\ Cardinality(M) = 2
       /\ \E m \in M : store[m].published_date < readCall.value[1].published_date
  /\ \E i \in DOMAIN store :
       /\ readCall.symbol \in Range(store[i].symbols)
       /\ \/ store[i].published_date > now
          \/ store[i].published_date < now - readCall.days

RECURSIVE SumOver(_, _)
SumOver(S, field) ==
  IF S = {} THEN 0
  ELSE LET m == CHOOSE x \in S : TRUE
       IN store[m].sentiment[field] + SumOver(S \ {m}, field)

\* x = p / q for the fraction x and integers p, q > 0
IsQuotient(x, p, q) == x.num * q = p * x.den /\ x.den > 0

\* C10: a get_sentiment_summary call over a non-empty set of matching
\* documents returns their number as article_count, the arithmetic mean of
\* compound, positive, negative and neutral over them, and the trend
\* positive when the mean compound is >= 0.05, negative when it is <= -0.05,
\* neutral otherwise.
C10_SentimentSummary ==
  (readCall.op = "summary" /\ ~readCall.failed
     /\ Matching(readCall.symbol, readCall.days) # {}) =>
     LET M == Matching(readCall.symbol, readCall.days)
         n == Cardinality(M)
         v == readCall.value
         c == SumOver(M, "compound")
     IN /\ v.article_count = n
        /\ IsQuotient(v.average_sentiment.compound, c, n)
        /\ IsQuotient(v.average_sentiment.positive, SumOver(M, "positive"), n)
        /\ IsQuotient(v.average_sentiment.negative, SumOver(M, "negative"), n)
        /\ IsQuotient(v.average_sentiment.neutral, SumOver(M, "neutral"), n)
        /\ v.sentiment_trend = (IF c >= 5 * n THEN "positive"
                                ELSE IF c <= (-5) * n THEN "negative"
                                ELSE "neutral")

\* the summary over three documents with compounds 0.2, -0.4 and 0.6
C10_Witness ==
  /\ readCall.op = "summary" /\ ~readCall.failed
  /\ readCall.value.article_count = 3
  /\ {store[m].sentiment.compound : m \in Matching(readCall.symbol, readCall.days)}
       = {20, -40, 60}
  /\ readCall.value.average_sentiment.compound = [num |-> 40, den |-> 3]
  /\ readCall.value.sentiment_trend = "positive"

SentimentSummaryFields ==
  {"symbol", "period_days", "article_count", "average_sentiment",
   "sentiment_trend", "latest_articles"}

\* C11: a get_sentiment_summary call that no stored document matches returns
\* article_count 0, the four means at zero and the trend neutral, in a
\* summary with the fields symbol, period_days, article_count,
\* average_sentiment, sentiment_trend and latest_articles and no error field.
C11_EmptySummary ==
  (readCall.op = "summary" /\ Matching(readCall.symbol, readCall.days) = {}) =>
     LET v == readCall.value IN
     /\ DOMAIN v = SentimentSummaryFields
     /\ v.article_count = 0
     /\ \A f \in {"compound", "positive", "negative", "neutral"} :
          v.average_sentiment[f].num = 0
     /\ v.sentiment_trend = "neutral"

\* C12: after process_news_article returns, the article carries title_en and
\* content_en and neither is None, for an English and for an Arabic article
\* and whatever the translator and the scoring libraries did.
C12_EnglishViewPresent ==
  fnCall.op = "process_news_article" =>
    /\ {"title_en", "content_en"} \subseteq DOMAIN fnCall.out
    /\ fnCall.out.title_en # NoneText
    /\ fnCall.out.content_en # NoneText

C12_Witness ==
  /\ fnCall.op = "process_news_article"
  /\ fnCall.article.language = "ar"
  /\ ~IsBlank(fnCall.article.title) /\ ~IsBlank(fnCall.article.content)
  /\ AllFail(fnCall.ft)
  /\ fnCall.fc[1] /\ ~AllFail(fnCall.fc)
  /\ fnCall.so = "Exception"
  /\ fnCall.out.title_en = fnCall.article.title
  /\ fnCall.out.content_en = Translate(fnCall.article.content)

NeutralVector ==
  [compound |-> 0, positive |-> 0, negative |-> 0, neutral |-> 100,
   polarity |-> 0, subjectivity |-> 0]

\* C13: analyze_sentiment on an empty or whitespace-only text returns
\* compound 0, positive 0, negative 0, neutral 1 together with polarity 0 and
\* subjectivity 0.
C13_BlankTextNeutral ==
  (fnCall.op = "analyze_sentiment" /\ IsBlank(fnCall.text)) =>
     fnCall.value = NeutralVector

\* no layout of date_formats reads a date out of ds and the regex does not
\* read an existing date out of it either
Unparseable(ds) ==
  /\ \A k \in DOMAIN date_formats : ~StrptimeOk(ds, date_formats[k])
  /\ ~(RegexMatch(ds) /\ ValidDate(RegexYear(ds), RegexMonth(ds), RegexDay(ds)))

\* C14: for every date string _parse_date returns a timestamp: it neither
\* raises nor returns None, and a string that cannot be parsed gives the
\* current time.
C14_ParseDateTotal ==
  fnCall.op = "parse_date" =>
    /\ fnCall.out.kind = "return"
    /\ fnCall.out.value \in Nat
    /\ (fnCall.date_str.kind = "blank" \/ Unparseable(fnCall.date_str)) =>
          fnCall.out.value = now

C14_Witness ==
  /\ fnCall.op = "parse_date"
  /\ fnCall.date_str.kind = "numeric"
  /\ RegexMatch(fnCall.date_str)
  /\ RegexMonth(fnCall.date_str) = 13
  /\ fnCall.out.kind = "return"
  /\ fnCall.out.value = now

SymbolRank(sym) == CHOOSE k \in DOMAIN KnownSymbols : KnownSymbols[k] = sym

\* the tickers a text mentions, by the NNNN.SR pattern or by a name
Mentioned(text) ==
  {sym \in Range(KnownSymbols) : \E i \in DOMAIN text : text[i] = sym}
  \cup {stock_name_mapping[k].symbol : k \in
          {j \in DOMAIN stock_name_mapping :
             Contains(Lower(text), stock_name_mapping[j].name)}}

\* C15: _extract_stock_symbols returns the union of the pattern matches and
\* the name matches, ascending and without duplicates; a text with '2222.SR'
\* or with 'aramco' in any letter case gives '2222.SR' exactly once, and a
\* text without a match gives the empty list.
C15_SymbolsSortedUnique ==
  fnCall.op = "extract_stock_symbols" =>
    LET r == fnCall.value
        text == fnCall.text
    IN /\ Range(r) = Mentioned(text)
       /\ \A i, j \in DOMAIN r : i < j => SymbolRank(r[i]) < SymbolRank(r[j])
       /\ (\E i \in DOMAIN text : text[i] \in {"2222.SR", "aramco", "Aramco", "ARAMCO"})
            => Cardinality({i \in DOMAIN r : r[i] = "2222.SR"}) = 1
       /\ Mentioned(text) = {} => r = <<>>

C15_Witness ==
  /\ fnCall.op = "extract_stock_symbols"
  /\ fnCall.text = <<"2222.SR", "ARAMCO", "1120.SR">>
  /\ fnCall.value = <<"1120.SR", "2222.SR">>

EvaluationFields ==
  {"overall_direction", "confidence_level", "overall_score", "recommendation"}

\* C19: evaluate_stock returns an evaluation whose overall_direction,
\* confidence_level, overall_score and recommendation are present and not
\* None for every combination of golden-opportunity, news and trend inputs,
\* None and empty ones included, and does not raise.
C19_EvaluateStockTotal ==
  fnCall.op = "evaluate_stock" =>
    /\ fnCall.out.kind = "return"
    /\ \A f \in EvaluationFields :
         /\ f \in DOMAIN fnCall.out.value
         /\ fnCall.out.value[f] # NoneValue

C19_Witness ==
  /\ fnCall.op = "evaluate_stock"
  /\ IsNone(fnCall.golden) /\ IsNone(fnCall.news) /\ IsNone(fnCall.trend)
  /\ fnCall.out.kind = "return"
  /\ fnCall.out.value.overall_direction = [v |-> "neutral"]
  /\ fnCall.out.value.confidence_level = [v |-> "low"]

\* C16: no operation changes or removes a stored document: a candidate whose
\* URL is already stored leaves the store as it is, the two read operations
\* leave it as it is, and every step keeps the stored documents and at most
\* appends to them.
C16_StoreOnlyGrows ==
  [][ /\ Len(store') >= Len(store)
      /\ \A i \in DOMAIN store : store'[i] = store[i]
      /\ (stPc = "find" /\ log' = "already exists") => store' = store
      /\ readCall' # readCall => store' = store ]_vars

C16_Witness ==
  /\ log = "already exists"
  /\ si > 1
  /\ \E i \in DOMAIN store :
       /\ store[i].url = processed_articles[si - 1].url
       /\ store[i] # processed_articles[si - 1]
       /\ store[i] \in Range(storeCall.store0)
  /\ readCall.op = "summary"
  /\ readCall.value.article_count > 0

C17_SourcesInOrder ==
  /\ cycleLog.fetched = [i \in 1..Len(cycleLog.fetched) |-> i]
  /\ pc = "fetch" => Len(cycleLog.fetched) = src - 1
  /\ pc \in {"process", "store", "done"} =>
       Len(cycleLog.fetched) = Len(news_sources)

C17_Witness ==
  /\ pc = "process"
  /\ results.errors = <<[in |-> "source", what |-> news_sources[1].name]>>
  /\ cycleLog.fetched = <<1, 2>>
  /\ all_articles # <<>>
  /\ \A i \in DOMAIN all_articles : all_articles[i].source = news_sources[2].name

EnrichedFields == {"title_en", "content_en", "sentiment", "symbols", "processed_at"}

\* C20: every document a collection cycle stores carries title_en,
\* content_en, sentiment, symbols and processed_at when store_news_in_db
\* inserts it, whatever its content fetch and its translations did.
C20_StoredArticlesEnriched ==
  /\ [](\A i \in DOMAIN store :
          /\ EnrichedFields \subseteq DOMAIN store[i]
          /\ store[i].title_en # NoneText
          /\ store[i].content_en # NoneText)
  /\ [][store' # store =>
          /\ stPc = "insert"
          /\ store' = Append(store, processed_articles[si])
          /\ EnrichedFields \subseteq DOMAIN processed_articles[si]]_vars

C20_Witness ==
  \E i \in DOMAIN store :
    /\ store[i].language = "ar"
    /\ store[i].title_en = store[i].title
    /\ store[i].content = EmptyText
    /\ store[i].content_en = EmptyText
    /\ store[i].symbols = <<>>
    /\ "compound" \in DOMAIN store[i].sentiment

\* the waits of a backoff that starts at retry_delay = 2 and doubles
Backoff(n) == [i \in 1..n |-> 2 * 2^(i - 1)]

C21_ThreeWaits ==
  /\ (fetchCall.op = "fetch" /\ AllRequestsFail(fetchCall.outs)) =>
       fetchCall.sleeps = <<2, 4, 8>>
  /\ (procCall.op = "process" /\ procCall.article.language = "ar"
        /\ procCall.title_failed /\ ~IsBlank(procCall.article.title)) =>
       procCall.title_tr.sleeps = <<2, 4, 8>>

\* C21: in fetch_news_from_source and in translate_text the backoff delay
\* starts at 2 seconds and doubles after each failed attempt that is
\* retried; a permanently failing call waits 2s and 4s after its first and
\* second failed attempts and ends after its third failed attempt without
\* waiting.
C21_BackoffDoubles ==
  /\ fetchCall.op = "fetch" =>
       /\ fetchCall.sleeps = Backoff(fetchCall.gets - 1)
       /\ AllRequestsFail(fetchCall.outs) => fetchCall.sleeps = <<2, 4>>
  /\ (procCall.op = "process" /\ procCall.article.language = "ar") =>
       /\ procCall.title_tr.calls > 0 =>
            procCall.title_tr.sleeps = Backoff(procCall.title_tr.calls - 1)
       /\ procCall.content_tr.calls > 0 =>
            procCall.content_tr.sleeps = Backoff(procCall.content_tr.calls - 1)
       /\ (procCall.title_failed /\ ~IsBlank(procCall.article.title)) =>
            procCall.title_tr.sleeps = <<2, 4>>

C21_Witness ==
  /\ fetchCall.op = "fetch"
  /\ AllRequestsFail(fetchCall.outs)
  /\ fetchCall.kind = "return"
  /\ fetchCall.sleeps = <<2, 4>>
  /\ cycleLog.fetched # <<>>

RECURSIVE Concat(_)
Concat(parts) == IF parts = <<>> THEN <<>> ELSE Head(parts) \o Concat(Tail(parts))

\* C22: when no translator call fails, translate_text translates a text
\* shorter than 5000 characters in exactly one translator call, and splits
\* a text of length >= 5000 into consecutive slices of at most 4999
\* characters whose concatenation is the original text, translates each
\* slice exactly once in order with a 1-second pause between consecutive
\* chunk calls, and returns the translations joined by single spaces; an
\* empty or blank text returns the empty string with no translator call.
C22_ChunkedTranslation ==
  (fnCall.op = "translate_text" /\ fnCall.fails = NoFails) =>
    LET text == fnCall.text
        out == fnCall.out
    IN /\ out.kind = "return"
       /\ IsBlank(text) => (out.value = EmptyText /\ out.calls = 0)
       /\ (~IsBlank(text) /\ Len(text) < 5000) =>
            /\ out.calls = 1
            /\ out.sent = <<text>>
            /\ out.value = Translate(text)
       /\ (~IsBlank(text) /\ Len(text) >= 5000) =>
            /\ out.calls = Len(out.sent)
            /\ \A k \in DOMAIN out.sent :
                 Len(out.sent[k]) >= 1 /\ Len(out.sent[k]) <= 4999
            /\ Concat(out.sent) = text
            /\ Len(out.sleeps) >= out.calls - 1
            /\ \A k \in DOMAIN out.sleeps : out.sleeps[k] = 1
            /\ out.value = JoinSp([k \in DOMAIN out.sent |-> Translate(out.sent[k])])

C22_Witness ==
  /\ fnCall.op = "translate_text"
  /\ fnCall.fails = NoFails
  /\ Len(fnCall.text) = 9999
  /\ fnCall.out.calls = 3
  /\ Len(fnCall.out.sent[3]) = 1
  /\ Len(fnCall.out.value) = 10001

\* the number of listing GETs up to and including the first one that answers
FirstOk(outs) == CHOOSE k \in DOMAIN outs :
                   outs[k] = "ok" /\ \A j \in 1..(k - 1) : outs[j] # "ok"

Titled(listing) == {i \in DOMAIN listing : listing[i].has_title}

\* C23: _fetch_article_content makes exactly one HTTP attempt per non-empty
\* article URL and never raises; when the attempt or the extraction fails
\* the article is still returned by fetch_news_from_source with the empty
\* string as content, the listing fetch is not retried and the other
\* articles of the source are kept.
C23_ContentFetchSingleAttempt ==
  (fnCall.op = "fetch_news_from_source" /\ fnCall.out.kind = "return"
     /\ \E k \in DOMAIN fnCall.outs : fnCall.outs[k] = "ok") =>
    LET listing == fnCall.listing
        out == fnCall.out
    IN /\ out.gets = FirstOk(fnCall.outs)
       /\ Len(out.value) = Cardinality(Titled(listing))
       /\ \A i \in Titled(listing) :
            LET el == out.elements[i]
                url == AbsoluteUrl(fnCall.source, listing[i].href)
            IN /\ el.gets = IF url = EmptyUrl THEN 0 ELSE 1
               /\ el.kept
               /\ el.article.title = listing[i].title
               /\ listing[i].page.status # "ok" => el.article.content = EmptyText
               /\ \E j \in DOMAIN out.value : out.value[j] = el.article

C23_Witness ==
  /\ fnCall.op = "fetch_news_from_source"
  /\ fnCall.listing = <<E2, E4, E1, E5>>
  /\ fnCall.out.gets = 2
  /\ Len(fnCall.out.value) = 4
  /\ fnCall.out.value[1].content = EmptyText
  /\ fnCall.out.value[3].content # EmptyText
  /\ fnCall.out.value[4].content = EmptyText
  /\ fnCall.out.elements[4].gets = 1

\* C24: every article returned by fetch_news_from_source has an absolute
\* URL: an href that does not start with 'http' is prefixed with the
\* source's base origin, so no returned article has a relative or empty url.
C24_AbsoluteUrls ==
  (fnCall.op = "fetch_news_from_source" /\ fnCall.out.kind = "return") =>
    \A j \in DOMAIN fnCall.out.value :
      /\ fnCall.out.value[j].url # EmptyUrl
      /\ fnCall.out.value[j].url.origin # ""

\* the URLs the batches of the two calls share and the store did not hold
SharedNewUrls ==
  {u \in StoredUrls(storeCall.batch) \cap StoredUrls(writer2.batch) :
     u \notin StoredUrls(storeCall.store0)}

Copies(st, u) == Cardinality({i \in DOMAIN st : st[i].url = u})

\* C25: when two store_news_in_db calls run concurrently and both batches
\* contain an article with the same URL that is not yet stored, at most one
\* copy of that URL ends up stored, under every interleaving of their
\* lookup and insert steps.
C25_ConcurrentStoreUniqueUrl ==
  (storeCall.op = "store" /\ writer2.op = "store") =>
    \A u \in SharedNewUrls : Copies(store, u) <= 1

\* the sum of the per-source counts of a summary
RECURSIVE SumCounts(_, _)
SumCounts(sources, names) ==
  IF names = {} THEN 0
  ELSE LET n == CHOOSE x \in names : TRUE
       IN sources[n] + SumCounts(sources, names \ {n})

\* C26: in every summary returned by collect_and_analyze_news,
\* total_articles equals the sum of the per-source counts in sources, and
\* stored_articles <= processed_articles <= total_articles.
C26_SummaryCounts ==
  outcome = "returned" =>
    /\ results.total_articles = SumCounts(results.sources, DOMAIN results.sources)
    /\ results.stored_articles <= results.processed_articles
    /\ results.processed_articles <= results.total_articles

C26_Witness ==
  /\ outcome = "returned"
  /\ Cardinality(DOMAIN results.sources) = 2
  /\ \A n \in DOMAIN results.sources : results.sources[n] > 0
  /\ results.stored_articles > 0
  /\ results.stored_articles < results.processed_articles

\* C27: for each of get_alpha_vantage_news, get_newsapi_news and
\* get_finnhub_news, a call answered from an unexpired cache entry returns
\* the same article list as the earlier call that fetched the response from
\* the API and wrote that cache entry.
C27_CacheHitSameList ==
  (api.call.op \in ApiNames /\ api.call.hit) => api.call.value = api.call.written

\* the threads that are inside run_scheduler
LoopThreads == {t \in ThreadIds : sched.threads[t] \in {"loop", "pending"}}

\* C28: under every interleaving of start_scheduler calls with the
\* background thread, at most one scheduler loop thread runs at a time, and
\* a start_scheduler call made while a scheduler has been started returns
\* False and starts no thread.
C28_OneSchedulerThread ==
  /\ Cardinality(LoopThreads) <= 1
  /\ (sched.start.op = "start" /\ sched.start.prior /\ sched.start.done) =>
       ~sched.start.ret

\* C29: a stop_scheduler call made after start_scheduler has returned True
\* returns True, under every interleaving with the background thread.
C29_StopAfterStart ==
  (sched.stop.op = "stop" /\ sched.stop.after_start /\ sched.stop.done) =>
     sched.stop.ret

\* C30: schedule_job(job_func, interval_minutes) schedules the job with a
\* period of exactly interval_minutes minutes, for every interval_minutes
\* >= 1, below 60 and from 60 on.
C30_JobPeriod ==
  \A i \in DOMAIN sched.jobs :
    PeriodMinutes(sched.jobs[i]) = sched.jobs[i].interval_minutes

====
